---- MODULE Spec2Model ----
(***************************************************************************)
(* A model of py-ia-rom-logger: the log-file retention of                  *)
(* FileManagerService, the setup of LoggingManager, the singleton          *)
(* decorator, the object-to-JSON coercion LogModel.jsonable, the two       *)
(* handlers of a logging call, the exception hooks and the text functions. *)
(*                                                                         *)
(* The module holds several specifications over one set of variables; an   *)
(* action of one specification leaves the variables of the others alone.   *)
(*   SpecRetention  cleanup_old_files, step by step, with another actor    *)
(*                  removing and locking files in the directory            *)
(*   SpecSetup      LoggingManager.setup_logging on the root logger        *)
(*   SpecSingleton  calls of a class decorated with @singleton             *)
(*   SpecJson       jsonable on object graphs of primitives, mappings,     *)
(*                  sequences, dataclass instances and plain objects       *)
(*   SpecJsonObj    jsonable on an object with conversion methods          *)
(*   SpecLog        one logging call through the console and file handlers *)
(*   SpecHooks      uncaught exceptions and the hooks of setup_logging     *)
(*   SpecTraceback  CompactTracebackFormatter.format                       *)
(*   SpecEmoji      FileLogModel.strip_emojis                              *)
(*   SpecPlaceholders  LogModel.remove_placeholders                        *)
(*   SpecCreate     the creation of file handlers and the cleanup runs     *)
(*   SpecStarts     the same over the starts of a program                  *)
(*   SpecDates      the dated directory across a change of the date        *)
(*   SpecRichThreads  create_rich_traceback called from two threads        *)
(*   SpecRichAlone  create_rich_traceback called alone                     *)
(*   SpecGetThreads a @singleton class called from two threads             *)
(*   SpecSetupThreads  setup_logging called from two threads               *)
(*   SpecAddFields  SafeJsonFormatter.add_fields                           *)
(***************************************************************************)
EXTENDS Integers, Sequences, FiniteSets, TLC

(***************************************************************************)
(* Bounds of the model.                                                    *)
(***************************************************************************)
\* the *.log files of the dated directory are named 1..NFiles
NFiles == 3
\* modification times are 1..MaxTime (equal times are possible)
MaxTime == 2
\* SETTINGS.MAX_FILES is drawn from 1..MaxLimit
MaxLimit == 2
\* removals and locks by another actor during one cleanup_old_files call
MaxEnvOps == 1

\* calls of setup_logging in one behaviour
MaxSetupCalls == 3
\* calls of a @singleton class in one behaviour, and its constructor
\* arguments 1..MaxArg
MaxCalls == 3
MaxArg == 3
\* increments of the counter of the singleton instance
MaxCount == 2
\* the objects of the heap jsonable is applied to are 1..MaxObjs
MaxObjs == 2
\* uncaught exceptions in one behaviour
MaxUncaught == 2
\* max_frames of a CompactTracebackFormatter is drawn from 0..MaxFrames, and
\* a traceback has 0..MaxStack frames
MaxFrames == 3
MaxStack == 5
\* the texts given to strip_emojis have at most MaxEmojiLen code points
MaxEmojiLen == 2
\* the short texts given to remove_placeholders have at most MaxPhLen
\* characters
MaxPhLen == 5
\* cleanup runs, openings and writes in one behaviour
MaxFhLog == 5
\* the days are 1..MaxDay, and dirLog has at most MaxDirLog entries
MaxDay == 3
MaxDirLog == 4

FileIds == 1..NFiles
Times == 1..MaxTime

VARIABLES
    \* ---- the file system: BACKUP_LOG_DIR and its *.log files
    dirExists,      \* BACKUP_LOG_DIR.exists()
    files,          \* the *.log files present in BACKUP_LOG_DIR
    mtime,          \* file -> st_mtime (0 for a file that is not present)
    locked,         \* files whose unlink() raises PermissionError
    maxFiles,       \* SETTINGS.MAX_FILES
    \* ---- one call of FileManagerService.cleanup_old_files
    pc,             \* position of the call
    listing,        \* the paths glob("*.log") produced
    sortedFiles,    \* local `files`: the listing sorted by st_mtime
    keys,           \* file -> the st_mtime that the sort key read
    qtd,            \* files_to_remove, the argument of _delete_files
    idx,            \* position of the loop of _delete_files in files[:qtd]
    removed,        \* files this call has unlinked
    failed,         \* files whose unlink() raised OSError in this call
    envOps,         \* removals and locks by the other actor during this call
    \* ---- the root logger and LoggingManager.setup_logging
    now,            \* the clock, in seconds: it names and stamps new files
    handlers,       \* logging.getLogger().handlers
    loggerLevel,    \* the level of the root logger
    sysHook,        \* sys.excepthook: 0 the interpreter's, k the k-th call's
    threadHook,     \* threading.excepthook, likewise
    setupCalls,     \* calls of setup_logging so far
    lastSetup,      \* the arguments and the outcome of the latest call
    \* ---- a class decorated with @singleton
    instances,      \* the dict `instances` of the decorator's closure
    objs,           \* the instances constructed: object id -> its fields
    calls,          \* the calls made: argument passed, reference returned
    lastWrite,      \* the counter value of the latest write through a reference
    \* ---- one call of LogModel.jsonable
    heap,           \* object id -> its type and the objects it refers to
    idReuse,        \* whether id() of a new temporary repeats that of a freed one
    jsPc,           \* "ready", then "returned" or "raised"
    jsOut           \* the value returned

VARIABLES
    \* ---- one logging call: the record and its way through the handlers
    recLevel,       \* record.levelname
    recArgs,        \* the arguments of the call, objects of the heap in order
    recExc,         \* record.exc_info: whether it is set, and its three parts
    recFmtOk,       \* whether `msg % args` of record.getMessage() succeeds
    logPc,          \* "idle", "console", "file", then "returned" or "raised"
    conOut,         \* what the console has printed, in order
    handled,        \* the handlers whose handleError was called
    fileRec,        \* the JSON record written to the log file
    propagated      \* the exception that left the logging call

VARIABLES
    \* ---- uncaught exceptions and the hooks they reach
    uncaught,       \* the uncaught exceptions so far: the hook that ran and
                    \* the log calls it made
    \* ---- one call of a text function
    textPc,         \* "idle", "ready", then "returned"
    tbIn,           \* CompactTracebackFormatter: max_frames and exc_info
    tbOut,          \* what format returned
    emIn,           \* strip_emojis: the argument, None or a text
    emOut,          \* the text strip_emojis returned
    phIn,           \* remove_placeholders: the argument
    phOut,          \* the text remove_placeholders returned
    \* ---- the creation of file handlers
    managerBuilt,   \* whether LoggingManager() has constructed its instance
    fhLog           \* cleanup runs, openings of log files and writes, in order

VARIABLES
    \* ---- the dated directory of FileManagerService
    today,          \* the local date, as a day number
    backupDir,      \* the day that BACKUP_LOG_DIR names, 0 before construction
    dirLog          \* the directories that cleanups and new log files used

VARIABLES
    \* ---- two threads that call into the library
    thPc,           \* thread -> the position of its call
    thArg,          \* thread -> the argument of its call
    thRet,          \* thread -> what its call returned
    fmtLines,       \* self._traceback_lines of the TracebackRichFormatter
    fmtFrames       \* self._last_frames of the TracebackRichFormatter

VARIABLES
    \* ---- one call of SafeJsonFormatter.add_fields
    afPc,           \* position of the call
    afIn,           \* the texts of the LogRecord: msg, argument, exception
    afOut           \* the string fields of log_record after the call

retentionVars == <<dirExists, files, mtime, locked, maxFiles, pc, listing,
                   sortedFiles, keys, qtd, idx, removed, failed, envOps>>

callVars == <<pc, listing, sortedFiles, keys, qtd, idx, removed, failed, envOps>>

setupVars == <<now, handlers, loggerLevel, sysHook, threadHook, setupCalls,
               lastSetup>>

singletonVars == <<instances, objs, calls, lastWrite>>

jsonVars == <<heap, idReuse, jsPc, jsOut>>

recordVars == <<recLevel, recArgs, recExc, recFmtOk>>

emitVars == <<logPc, conOut, handled, fileRec, propagated>>

hookVars == <<uncaught>>

textVars == <<textPc, tbIn, tbOut, emIn, emOut, phIn, phOut>>

createVars == <<managerBuilt, fhLog>>

dateVars == <<today, backupDir, dirLog>>

threadVars == <<thPc, thArg, thRet, fmtLines, fmtFrames>>

\* the variables of the later sections of the module
fieldVars == <<afPc, afIn, afOut>>

moreVars == <<dateVars, threadVars, fieldVars>>

notThreadVars == <<retentionVars, setupVars, singletonVars, jsonVars,
                   recordVars, emitVars, hookVars, textVars, createVars, dateVars,
                   fieldVars>>

notDateVars == <<retentionVars, setupVars, singletonVars, jsonVars, recordVars,
                 emitVars, hookVars, textVars, createVars, threadVars, fieldVars>>

eventVars == <<recordVars, emitVars, hookVars, textVars, createVars, moreVars>>

notRetentionVars == <<setupVars, singletonVars, jsonVars, eventVars>>

vars == <<dirExists, files, mtime, locked, maxFiles, pc, listing,
          sortedFiles, keys, qtd, idx, removed, failed, envOps,
          now, handlers, loggerLevel, sysHook, threadHook, setupCalls,
          lastSetup, instances, objs, calls, lastWrite,
          heap, idReuse, jsPc, jsOut, eventVars>>

(***************************************************************************)
(* Helpers on sequences.                                                   *)
(***************************************************************************)
Range(s) == {s[i] : i \in 1..Len(s)}

\* the sequences over S without repetition that list all of S
Perms(S) == {s \in [1..Cardinality(S) -> S] : Range(s) = S}

\* Python's s[:n]: a negative n counts from the end
Take(s, n) ==
    LET stop == IF n < 0 THEN Len(s) + n ELSE n IN
      IF stop <= 0 THEN <<>>
      ELSE SubSeq(s, 1, IF stop < Len(s) THEN stop ELSE Len(s))

\* insert x into the ascending sequence s behind every element whose key is
\* not greater: the sort is stable
RECURSIVE InsertByKey(_, _, _)
InsertByKey(x, s, k) ==
    IF s = <<>> THEN <<x>>
    ELSE IF k[x] < k[Head(s)] THEN <<x>> \o s
    ELSE <<Head(s)>> \o InsertByKey(x, Tail(s), k)

\* sorted(s, key=k): ascending and stable
RECURSIVE SortedByKey(_, _)
SortedByKey(s, k) ==
    IF s = <<>> THEN <<>>
    ELSE InsertByKey(s[Len(s)], SortedByKey(SubSeq(s, 1, Len(s) - 1), k), k)

(***************************************************************************)
(* FileManagerService.cleanup_old_files and _delete_files.                 *)
(***************************************************************************)
NoKeys == [f \in FileIds |-> 0]

\* the call-local state before a call and after its return
CallIdle ==
    /\ listing = {}
    /\ sortedFiles = <<>>
    /\ keys = NoKeys
    /\ qtd = 0
    /\ idx = 0
    /\ removed = {}
    /\ failed = {}
    /\ envOps = 0

\* a variant of OverLimit: `>` for `>=`
OverLimitStrict(n, limit) == n > limit

\* `if len(files) >= SETTINGS.MAX_FILES`
OverLimit(n, limit) == n >= limit

\* variants of FilesToRemove: the `+ 1` dropped, and its sign turned
FilesToRemoveExact(n, limit) == n - limit

FilesToRemoveLess(n, limit) == n - limit - 1

\* `files_to_remove = len(files) - SETTINGS.MAX_FILES + 1`
FilesToRemove(n, limit) == n - limit + 1

\* `if not self.BACKUP_LOG_DIR.exists(): return`
CleanupEnter ==
    /\ pc = "idle"
    /\ pc' = IF dirExists THEN "glob" ELSE "done"
    /\ UNCHANGED <<dirExists, files, mtime, locked, maxFiles, listing,
                   sortedFiles, keys, qtd, idx, removed, failed, envOps>>
    /\ UNCHANGED notRetentionVars

\* `self.BACKUP_LOG_DIR.glob("*.log")`: sorted() first collects the paths
\* that are present.  The order in which the file system enumerates them
\* shows only in the result of the sort, and is drawn there.
CleanupGlob ==
    /\ pc = "glob"
    /\ listing' = files
    /\ pc' = "stat"
    /\ UNCHANGED <<dirExists, files, mtime, locked, maxFiles,
                   sortedFiles, keys, qtd, idx, removed, failed, envOps>>
    /\ UNCHANGED notRetentionVars

\* `sorted(..., key=lambda f: f.stat().st_mtime)`: the key of every listed
\* path is read, and stat() of a path that is gone raises FileNotFoundError,
\* which nothing in cleanup_old_files catches
CleanupSort ==
    /\ pc = "stat"
    /\ IF listing \subseteq files
       THEN /\ keys' = [f \in FileIds |-> IF f \in listing THEN mtime[f] ELSE 0]
            /\ \E order \in Perms(listing) :
                 sortedFiles' = SortedByKey(order, mtime)
            /\ pc' = "decide"
       ELSE /\ pc' = "raised"
            /\ UNCHANGED <<keys, sortedFiles>>
    /\ UNCHANGED <<dirExists, files, mtime, locked, maxFiles, listing,
                   qtd, idx, removed, failed, envOps>>
    /\ UNCHANGED notRetentionVars

\* `if len(files) >= SETTINGS.MAX_FILES: ... self._delete_files(files, n)`
CleanupDecide ==
    /\ pc = "decide"
    /\ IF OverLimit(Len(sortedFiles), maxFiles)
       THEN /\ qtd' = FilesToRemove(Len(sortedFiles), maxFiles)
            /\ idx' = 1
            /\ pc' = "delete"
       ELSE /\ pc' = "done"
            /\ UNCHANGED <<qtd, idx>>
    /\ UNCHANGED <<dirExists, files, mtime, locked, maxFiles, listing,
                   sortedFiles, keys, removed, failed, envOps>>
    /\ UNCHANGED notRetentionVars

\* one iteration of `for file_path in files[:qtd]`: unlink(), and an OSError
\* (the file is gone, or it is locked) is passed over
CleanupDelete ==
    /\ pc = "delete"
    /\ idx <= Len(Take(sortedFiles, qtd))
    /\ LET f == Take(sortedFiles, qtd)[idx] IN
         IF f \in files /\ f \notin locked
         THEN /\ files' = files \ {f}
              /\ mtime' = [mtime EXCEPT ![f] = 0]
              /\ removed' = removed \cup {f}
              /\ UNCHANGED failed
         ELSE /\ failed' = failed \cup {f}
              /\ UNCHANGED <<files, mtime, removed>>
    /\ idx' = idx + 1
    /\ UNCHANGED <<dirExists, locked, maxFiles, pc, listing, sortedFiles,
                   keys, qtd, envOps>>
    /\ UNCHANGED notRetentionVars

\* the loop of _delete_files is exhausted: both functions return
CleanupLoopEnd ==
    /\ pc = "delete"
    /\ idx > Len(Take(sortedFiles, qtd))
    /\ pc' = "done"
    /\ UNCHANGED <<dirExists, files, mtime, locked, maxFiles, listing,
                   sortedFiles, keys, qtd, idx, removed, failed, envOps>>
    /\ UNCHANGED notRetentionVars

\* the caller goes on after the return or the exception; the locals are gone
CleanupLeave ==
    /\ pc \in {"done", "raised"}
    /\ pc' = "idle"
    /\ listing' = {}
    /\ sortedFiles' = <<>>
    /\ keys' = NoKeys
    /\ qtd' = 0
    /\ idx' = 0
    /\ removed' = {}
    /\ failed' = {}
    /\ envOps' = 0
    /\ UNCHANGED <<dirExists, files, mtime, locked, maxFiles>>
    /\ UNCHANGED notRetentionVars

(***************************************************************************)
(* The other actors on the directory.                                      *)
(***************************************************************************)
InCall == pc \in {"glob", "stat", "decide", "delete"}

\* another process deletes a log file while the call runs
EnvRemove ==
    /\ InCall
    /\ envOps < MaxEnvOps
    /\ \E f \in files \ locked :
         /\ files' = files \ {f}
         /\ mtime' = [mtime EXCEPT ![f] = 0]
    /\ envOps' = envOps + 1
    /\ UNCHANGED <<dirExists, locked, maxFiles, pc, listing, sortedFiles,
                   keys, qtd, idx, removed, failed>>
    /\ UNCHANGED notRetentionVars

\* another process opens a log file so that it cannot be unlinked
EnvLock ==
    /\ InCall
    /\ envOps < MaxEnvOps
    /\ \E f \in files \ locked : locked' = locked \cup {f}
    /\ envOps' = envOps + 1
    /\ UNCHANGED <<dirExists, files, mtime, maxFiles, pc, listing,
                   sortedFiles, keys, qtd, idx, removed, failed>>
    /\ UNCHANGED notRetentionVars

\* between two calls: the locks are released
EnvUnlock ==
    /\ pc = "idle"
    /\ locked # {}
    /\ locked' = {}
    /\ UNCHANGED <<dirExists, files, mtime, maxFiles, pc, listing,
                   sortedFiles, keys, qtd, idx, removed, failed, envOps>>
    /\ UNCHANGED notRetentionVars

\* between two calls: a log file is written into the directory
EnvCreate ==
    /\ pc = "idle"
    /\ dirExists
    /\ \E f \in FileIds \ files, t \in Times :
         /\ files' = files \cup {f}
         /\ mtime' = [mtime EXCEPT ![f] = t]
    /\ UNCHANGED <<dirExists, locked, maxFiles, pc, listing, sortedFiles,
                   keys, qtd, idx, removed, failed, envOps>>
    /\ UNCHANGED notRetentionVars

\* the root logger of a fresh interpreter, and no call of setup_logging yet
SetupIdle ==
    /\ now = 1
    /\ handlers = <<>>
    /\ loggerLevel = "WARNING"
    /\ sysHook = 0
    /\ threadHook = 0
    /\ setupCalls = 0
    /\ lastSetup = [level |-> "none", outcome |-> "none"]

\* a decorated class that has not been called
SingletonIdle ==
    /\ instances = <<>>
    /\ objs = <<>>
    /\ calls = <<>>
    /\ lastWrite = 0

\* a node of a value jsonable returns: the kind of the node, the object of
\* the heap it renders (0 for a temporary) and the nodes below it
Node(tag, of, kids) == [tag |-> tag, of |-> of, kids |-> kids]

\* no value: the call has not returned, or it raised
NoNode == Node("none", 0, <<>>)

\* no call of jsonable
JsonIdle ==
    /\ heap = <<>>
    /\ idReuse = FALSE
    /\ jsPc = "ready"
    /\ jsOut = NoNode

\* an absent field of the JSON record
Absent == Node("absent", 0, <<>>)

\* the record before add_fields has run
NoFileRec ==
    [written |-> FALSE, customargs |-> Absent, excKeys |-> FALSE,
     excName |-> FALSE]

\* record.exc_info of a call made without exc_info: None
NoExc == [set |-> FALSE, type |-> FALSE, value |-> FALSE, tb |-> FALSE]

\* exc_info without an exception: (None, None, None)
NoTb == [maxFrames |-> 0, type |-> FALSE, value |-> FALSE, frames |-> 0]

NoSummary == [lines |-> <<>>, name |-> FALSE, msg |-> FALSE]

NoText == [none |-> TRUE, text |-> <<>>]

\* no call of a text function
TextIdle ==
    /\ textPc = "idle"
    /\ tbIn = NoTb
    /\ tbOut = NoSummary
    /\ emIn = NoText
    /\ emOut = <<>>
    /\ phIn = <<>>
    /\ phOut = <<>>

\* no logging call
LogIdle ==
    /\ recLevel = "DEBUG"
    /\ recArgs = <<>>
    /\ recExc = NoExc
    /\ recFmtOk = TRUE
    /\ logPc = "idle"
    /\ conOut = <<>>
    /\ handled = {}
    /\ fileRec = NoFileRec
    /\ propagated = "no"

\* no uncaught exception
HooksIdle == uncaught = <<>>

\* LoggingManager is not constructed, and no file handler is created
CreateIdle ==
    /\ managerBuilt = FALSE
    /\ fhLog = <<>>

\* no FileManagerService is constructed
DateIdle ==
    /\ today = 1
    /\ backupDir = 0
    /\ dirLog = <<>>

Threads == {1, 2}

\* no thread has called
ThreadsIdle ==
    /\ thPc = [t \in Threads |-> "idle"]
    /\ thArg = [t \in Threads |-> 0]
    /\ thRet = [t \in Threads |-> <<>>]
    /\ fmtLines = <<>>
    /\ fmtFrames = <<>>

\* no call of add_fields
FieldsIdle ==
    /\ afPc = "idle"
    /\ afIn = <<>>
    /\ afOut = <<>>

MoreIdle ==
    /\ DateIdle
    /\ ThreadsIdle
    /\ FieldsIdle

EventIdle ==
    /\ LogIdle
    /\ HooksIdle
    /\ TextIdle
    /\ CreateIdle
    /\ MoreIdle

RetentionInit ==
    /\ dirExists \in BOOLEAN
    /\ files = {}
    /\ mtime = [f \in FileIds |-> 0]
    /\ locked = {}
    /\ maxFiles \in 1..MaxLimit
    /\ pc = "idle"
    /\ CallIdle
    /\ SetupIdle
    /\ SingletonIdle
    /\ EventIdle
    /\ JsonIdle

RetentionNext ==
    \/ CleanupEnter
    \/ CleanupGlob
    \/ CleanupSort
    \/ CleanupDecide
    \/ CleanupDelete
    \/ CleanupLoopEnd
    \/ CleanupLeave
    \/ EnvRemove
    \/ EnvLock
    \/ EnvUnlock
    \/ EnvCreate

SpecRetention == RetentionInit /\ [][RetentionNext]_vars

(***************************************************************************)
(* LoggingManager.setup_logging.  The call runs alone here, so that        *)
(* cleanup_old_files inside JsonCustomFileHandler.create_file_handler is   *)
(* one uninterrupted step.                                                 *)
(***************************************************************************)
LOG_LEVELS == {"DEBUG", "INFO", "WARNING", "ERROR", "CRITICAL"}

\* the files left by an uninterrupted cleanup_old_files on an existing
\* directory that enumerates the files fs in the given order
CleanupResult(fs, mt, lk, limit, order) ==
    LET sorted == SortedByKey(order, mt)
        chosen == IF OverLimit(Len(sorted), limit)
                  THEN Range(Take(sorted, FilesToRemove(Len(sorted), limit)))
                  ELSE {}
    IN  fs \ (chosen \ lk)

\* a variant of HasHandlers: the guard never sees a handler
HasHandlersNever(hs) == FALSE

\* `self.LOGGER.hasHandlers()` of the root logger, which has no parent
HasHandlers(hs) == hs # <<>>

ConsoleHandlerOf == [kind |-> "console", file |-> 0]
FileHandlerOf(f) == [kind |-> "file", file |-> f]
ForeignHandler == [kind |-> "foreign", file |-> 0]

\* a variant of HandlersOnRaise: the console handler is attached before the
\* file handler is created
HandlersOnRaiseConsoleAttached(hs) == Append(hs, ConsoleHandlerOf)

\* the handlers of the logger when the creation of a handler raises: both
\* handlers are created before either is attached
HandlersOnRaise(hs) == hs

\* setup_logging(console_formatter=RICH, file_formatter=JSON, level=level);
\* `opens` tells whether open() of the new log file succeeds
SetupLogging(level, opens) ==
    /\ setupCalls < MaxSetupCalls
    /\ now \in FileIds
    /\ setupCalls' = setupCalls + 1
    /\ IF HasHandlers(handlers)
       THEN \* `if self.LOGGER.hasHandlers(): return`
            /\ lastSetup' = [level |-> level, outcome |-> "skipped"]
            /\ UNCHANGED <<files, mtime, handlers, loggerLevel, sysHook,
                           threadHook>>
       ELSE \E order \in Perms(files) :
              LET kept == CleanupResult(files, mtime, locked, maxFiles, order) IN
                IF opens
                THEN \* both handlers are created, then attached; the level
                     \* is set and the two hooks are installed
                     /\ files' = kept \cup {now}
                     /\ mtime' = [f \in FileIds |->
                                    IF f = now THEN now
                                    ELSE IF f \in kept THEN mtime[f] ELSE 0]
                     /\ handlers' = <<ConsoleHandlerOf, FileHandlerOf(now)>>
                     /\ loggerLevel' = level
                     /\ sysHook' = setupCalls + 1
                     /\ threadHook' = setupCalls + 1
                     /\ lastSetup' = [level |-> level, outcome |-> "configured"]
                ELSE \* create_file_handler raises after its cleanup
                     /\ files' = kept
                     /\ mtime' = [f \in FileIds |->
                                    IF f \in kept THEN mtime[f] ELSE 0]
                     /\ lastSetup' = [level |-> level, outcome |-> "raised"]
                     /\ handlers' = HandlersOnRaise(handlers)
                     /\ UNCHANGED <<loggerLevel, sysHook, threadHook>>
    /\ UNCHANGED <<dirExists, locked, maxFiles, now, callVars, singletonVars,
                   jsonVars, eventVars>>

SetupLoggingCall == \E level \in LOG_LEVELS, opens \in BOOLEAN : SetupLogging(level, opens)

\* setup_logging(level=level) when create_rich_handler raises: the call
\* ends before create_file_handler and its cleanup
SetupLoggingConsoleRaises(level) ==
    /\ setupCalls < MaxSetupCalls
    /\ ~HasHandlers(handlers)
    /\ setupCalls' = setupCalls + 1
    /\ lastSetup' = [level |-> level, outcome |-> "raised"]
    /\ handlers' = HandlersOnRaise(handlers)
    /\ UNCHANGED <<now, loggerLevel, sysHook, threadHook>>
    /\ UNCHANGED <<retentionVars, singletonVars, jsonVars, eventVars>>

SetupLoggingConsoleRaisesCall == \E level \in LOG_LEVELS : SetupLoggingConsoleRaises(level)

\* `manager.LOGGER.handlers.clear()`, as the tests do between two setups
ClearHandlers ==
    /\ handlers # <<>>
    /\ handlers' = <<>>
    /\ UNCHANGED <<now, loggerLevel, sysHook, threadHook, setupCalls, lastSetup>>
    /\ UNCHANGED <<retentionVars, singletonVars, jsonVars, eventVars>>

\* the host application attaches a handler of its own to the root logger
AddForeignHandler ==
    /\ \A i \in 1..Len(handlers) : handlers[i] # ForeignHandler
    /\ handlers' = Append(handlers, ForeignHandler)
    /\ UNCHANGED <<now, loggerLevel, sysHook, threadHook, setupCalls, lastSetup>>
    /\ UNCHANGED <<retentionVars, singletonVars, jsonVars, eventVars>>

\* a second passes
Tick ==
    /\ now < MaxTime
    /\ now' = now + 1
    /\ UNCHANGED <<handlers, loggerLevel, sysHook, threadHook, setupCalls,
                   lastSetup>>
    /\ UNCHANGED <<retentionVars, singletonVars, jsonVars, eventVars>>

\* FileManagerService.__post_init__ has made the directory; log files of
\* earlier runs may be in it
SetupInit ==
    /\ dirExists = TRUE
    /\ files \in SUBSET FileIds
    /\ mtime \in [FileIds -> 0..MaxTime]
    /\ \A f \in FileIds : (mtime[f] = 0) <=> (f \notin files)
    /\ locked = {}
    /\ maxFiles \in 1..MaxLimit
    /\ pc = "idle"
    /\ CallIdle
    /\ SetupIdle
    /\ SingletonIdle
    /\ EventIdle
    /\ JsonIdle

SetupNext ==
    \/ SetupLoggingCall
    \/ SetupLoggingConsoleRaisesCall
    \/ ClearHandlers
    \/ AddForeignHandler
    \/ Tick

SpecSetup == SetupInit /\ [][SetupNext]_vars

(***************************************************************************)
(* The decorator singleton(cls) and the function getinstance it returns.   *)
(***************************************************************************)
\* the one class that is decorated: the key of `instances`
Cls == "cls"

\* a variant of InCache: the cache is never hit
InCacheNever(cache, cls) == FALSE

\* `cls not in instances`, negated
InCache(cache, cls) == cls \in DOMAIN cache

\* getinstance(arg): `if cls not in instances: instances[cls] = cls(arg)`,
\* then `return instances[cls]`; the constructor stores its argument
GetInstance(arg) ==
    /\ Len(calls) < MaxCalls
    /\ IF InCache(instances, Cls)
       THEN UNCHANGED <<instances, objs>>
       ELSE /\ objs' = Append(objs, [value |-> arg, count |-> 0])
            /\ instances' = [c \in {Cls} |-> Len(objs) + 1]
    /\ calls' = Append(calls, [arg |-> arg, ref |-> instances'[Cls]])
    /\ UNCHANGED lastWrite
    /\ UNCHANGED <<retentionVars, setupVars, jsonVars, eventVars>>

GetInstanceCall == \E arg \in 1..MaxArg : GetInstance(arg)

\* the caller of the i-th call mutates the object it was handed
Increment(i) ==
    /\ LET r == calls[i].ref IN
         /\ objs[r].count < MaxCount
         /\ objs' = [objs EXCEPT ![r].count = @ + 1]
         /\ lastWrite' = objs[r].count + 1
    /\ UNCHANGED <<instances, calls>>
    /\ UNCHANGED <<retentionVars, setupVars, jsonVars, eventVars>>

IncrementCall == \E i \in 1..Len(calls) : Increment(i)

SingletonInit ==
    /\ dirExists = TRUE
    /\ files = {}
    /\ mtime = [f \in FileIds |-> 0]
    /\ locked = {}
    /\ maxFiles = MaxLimit
    /\ pc = "idle"
    /\ CallIdle
    /\ SetupIdle
    /\ SingletonIdle
    /\ EventIdle
    /\ JsonIdle

SingletonNext ==
    \/ GetInstanceCall
    \/ IncrementCall

SpecSingleton == SingletonInit /\ [][SingletonNext]_vars

(***************************************************************************)
(* LogModel.jsonable.                                                      *)
(*                                                                         *)
(* An object of the heap has a kind: one of the primitive types, a         *)
(* dataclass instance, a Mapping ("dict"), a Sequence that is no string    *)
(* ("list"), or any other object.  For an object of kind "object":         *)
(*   repr    its type defines __repr__ (it is not object.__repr__)         *)
(*   strm    its type defines __str__                                      *)
(*   conv    "raises" when the conversions its type defines raise          *)
(*   todict  "none": no to_dict attribute; "ok": to_dict() returns a new   *)
(*           dict of the objects in kids; "raises": to_dict() raises       *)
(*   bag     it has a __dict__, whose values are the objects in kids       *)
(* kids are the values of a mapping, the elements of a sequence, and the   *)
(* field values of a dataclass instance, in order.                         *)
(***************************************************************************)
Ids == 1..MaxObjs

\* the object jsonable is called with
Root == 1

PrimKinds == {"NoneType", "str", "int", "float", "bool"}
ContainerKinds == {"dataclass", "dict", "list"}

Obj(kind, repr, strm, conv, todict, bag, kids) ==
    [kind |-> kind, repr |-> repr, strm |-> strm, conv |-> conv,
     todict |-> todict, bag |-> bag, kids |-> kids]

Prim(kind) == Obj(kind, FALSE, FALSE, "ok", "none", FALSE, <<>>)
Container(kind, kids) == Obj(kind, FALSE, FALSE, "ok", "none", FALSE, kids)
\* an instance of `class P: pass` with attributes
Plain(kids) == Obj("object", FALSE, FALSE, "ok", "none", TRUE, kids)

\* an object refers to at most two objects, and may name one of them twice
KidSeqs == {<<>>} \cup {<<a>> : a \in Ids} \cup {<<a, b>> : a \in Ids, b \in Ids}

IsPrim(o) == heap[o].kind \in PrimKinds
IsContainer(o) == heap[o].kind \in ContainerKinds
Kids(o) == Range(heap[o].kids)

\* the objects reached from the set S in at most n steps
RECURSIVE ReachN(_, _)
ReachN(S, n) ==
    IF n = 0 THEN S ELSE ReachN(S \cup UNION {Kids(o) : o \in S}, n - 1)

\* the objects below o
Desc(o) == ReachN(Kids(o), MaxObjs)

\* the objects reached from S in at most n steps through containers only
RECURSIVE CReachN(_, _)
CReachN(S, n) ==
    IF n = 0 THEN S
    ELSE CReachN(S \cup UNION {Kids(o) : o \in {c \in S : IsContainer(c)}}, n - 1)

\* the objects below o with only dataclass instances, mappings and
\* sequences on the way
CDesc(o) == CReachN(Kids(o), MaxObjs)

\* o reaches itself through values, elements, fields or attributes
OnCycle(o) == o \in Desc(o)

\* dataclasses.asdict(d) recurses without end: _asdict_inner follows
\* dataclass instances, lists, tuples and dicts and keeps no memo
AsdictLoops(d) ==
    \E n \in {d} \cup CDesc(d) : IsContainer(n) /\ n \in CDesc(n)

\* jsonable of the dataclass instance d ends in RecursionError: asdict(d)
\* recurses without end, or d lies on a cycle through another object, which
\* asdict deep-copies, so that every round meets new identities
Diverges(d) == AsdictLoops(d) \/ OnCycle(d)

\* repr(o) raises: of its own, or as the repr of a container that holds
\* such an object
ReprRaises(o) ==
    \E n \in {o} \cup (IF IsContainer(o) THEN CDesc(o) ELSE {}) :
        heap[n].kind = "object" /\ heap[n].repr /\ heap[n].conv = "raises"

\* str(o) raises: __str__ when the type defines it, else __repr__
StrRaises(o) ==
    IF heap[o].kind = "object" THEN heap[o].conv = "raises" ELSE ReprRaises(o)

\* id(value): a primitive is the same object wherever it occurs; any other
\* object is identified within the deep copy (ctx > 0) it belongs to
Ident(o, ctx) == IF IsPrim(o) THEN <<0, o>> ELSE <<ctx, o>>

\* the state threaded through the recursion: `_seen`, the number of deep
\* copies made, and whether _seen holds the id of a temporary that is freed
St(seen, nctx, freed) == [seen |-> seen, nctx |-> nctx, freed |-> freed]

\* the result of a call: the value, the exception, the state it leaves
Ret(out, st) == [out |-> out, raised |-> "no", st |-> st]
Raise(exc, st) == [out |-> NoNode, raised |-> exc, st |-> st]

\* `return str(value)`; the str of a str is the str itself
StrResult(o, st) ==
    IF StrRaises(o) THEN Raise("Error", st)
    ELSE IF heap[o].kind = "str" THEN Ret(Node("prim", o, <<>>), st)
    ELSE Ret(Node("str", o, <<>>), st)

\* a new temporary receives the id of a freed one that _seen still holds
Collides(st) == idReuse /\ st.freed

\* a variant of ReprFirst: to_dict() is asked before __repr__
ToDictFirst(o) == heap[o].repr /\ heap[o].todict = "none"

\* `type(value).__repr__ is not object.__repr__`
ReprFirst(o) == heap[o].repr

RECURSIVE Js(_, _, _)
RECURSIVE JsKids(_, _, _, _)
RECURSIVE AsdictJs(_, _)
RECURSIVE AsdictKids(_, _, _)

\* [self.jsonable(v, _seen=_seen) for v in ks], from left to right, up to
\* the first exception; outs are the values so far
JsKids(ks, ctx, st, outs) ==
    IF ks = <<>> THEN [outs |-> outs, raised |-> "no", st |-> st]
    ELSE LET r == Js(Head(ks), ctx, st) IN
           IF r.raised # "no"
           THEN [outs |-> outs, raised |-> r.raised, st |-> r.st]
           ELSE JsKids(Tail(ks), ctx, r.st, Append(outs, r.out))

\* the same over the values of dataclasses.asdict(value)
AsdictKids(ks, st, outs) ==
    IF ks = <<>> THEN [outs |-> outs, raised |-> "no", st |-> st]
    ELSE LET r == AsdictJs(Head(ks), st) IN
           IF r.raised # "no"
           THEN [outs |-> outs, raised |-> r.raised, st |-> r.st]
           ELSE AsdictKids(Tail(ks), r.st, Append(outs, r.out))

\* jsonable of what asdict makes of the field value k: a primitive is
\* itself; a dataclass instance, a dict, a list become a new dict or list;
\* any other object is copied by copy.deepcopy
AsdictJs(k, st) ==
    IF IsPrim(k) THEN Js(k, 0, st)
    ELSE IF IsContainer(k)
    THEN IF Collides(st) THEN StrResult(k, st)
         ELSE LET r == AsdictKids(heap[k].kids, st, <<>>) IN
                IF r.raised # "no" THEN Raise(r.raised, r.st)
                ELSE Ret(Node(IF heap[k].kind = "list" THEN "list" ELSE "dict",
                              k, r.outs), r.st)
    ELSE Js(k, st.nctx + 1, [st EXCEPT !.nctx = @ + 1])

\* jsonable(value, _seen=_seen) for the object v of the deep copy ctx
Js(v, ctx, st) ==
    IF Ident(v, ctx) \in st.seen \/ (ctx > 0 /\ ~IsPrim(v) /\ Collides(st))
    THEN \* `if obj_id in _seen: return str(value)`
         StrResult(v, st)
    ELSE LET st1 == [st EXCEPT !.seen = @ \cup {Ident(v, ctx)}] IN
      IF IsPrim(v)
      THEN \* 1) primitives
           Ret(Node("prim", v, <<>>), st1)
      ELSE IF heap[v].kind = "dataclass"
      THEN \* 2) dataclass: asdict(value) is freed when the branch returns
           IF Diverges(v) THEN Raise("RecursionError", st1)
           ELSE LET r == AsdictKids(heap[v].kids, st1, <<>>) IN
                  IF r.raised # "no" THEN Raise(r.raised, r.st)
                  ELSE Ret(Node("asdict", v, r.outs),
                           [r.st EXCEPT !.freed = TRUE])
      ELSE IF heap[v].kind \in {"dict", "list"}
      THEN \* 3) containers
           LET r == JsKids(heap[v].kids, ctx, st1, <<>>) IN
             IF r.raised # "no" THEN Raise(r.raised, r.st)
             ELSE Ret(Node(heap[v].kind, v, r.outs), r.st)
      ELSE IF ReprFirst(v)
      THEN \* 4) repr
           StrResult(v, st1)
      ELSE
        \* 5) to_dict(): the dict it returns is a temporary, freed when
        \* the try statement is left
        LET tried ==
              IF heap[v].todict # "ok" THEN Raise("Error", st1)
              ELSE IF Collides(st1)
              THEN IF \E k \in Kids(v) : ReprRaises(k)
                   THEN Raise("Error", st1)
                   ELSE Ret(Node("str", 0, <<>>), st1)
              ELSE LET r == JsKids(heap[v].kids, ctx, st1, <<>>) IN
                     IF r.raised # "no"
                     THEN Raise(r.raised, [r.st EXCEPT !.freed = TRUE])
                     ELSE Ret(Node("to_dict", v, r.outs),
                              [r.st EXCEPT !.freed = TRUE])
        IN
          IF heap[v].todict # "none" /\ tried.raised = "no" THEN tried
          ELSE LET st2 == IF heap[v].todict = "none" THEN st1 ELSE tried.st IN
            IF heap[v].bag
            THEN \* 6) __dict__
                 LET r == JsKids(heap[v].kids, ctx, st2, <<>>) IN
                   IF r.raised # "no" THEN Raise(r.raised, r.st)
                   ELSE Ret(Node("vars", v, r.outs), r.st)
            ELSE \* 7) fallback
                 StrResult(v, st2)

\* jsonable(value): `_seen` starts empty
Jsonable(v) == Js(v, 0, St({}, 0, FALSE))

\* the call jsonable(Root)
JsonableCall ==
    /\ jsPc = "ready"
    /\ LET r == Jsonable(Root) IN
         /\ jsPc' = IF r.raised = "no" THEN "returned" ELSE r.raised
         /\ jsOut' = r.out
    /\ UNCHANGED <<heap, idReuse>>
    /\ UNCHANGED <<retentionVars, setupVars, singletonVars, eventVars>>

\* the heaps of primitives, dataclass instances, mappings, sequences and
\* plain objects
GraphNodes ==
    {Prim(k) : k \in PrimKinds}
      \cup {Container(k, ks) : k \in ContainerKinds, ks \in KidSeqs}
      \cup {Plain(ks) : ks \in KidSeqs}

\* a conversion can raise only where the type defines one
WellFormed(n) == n.conv = "raises" => (n.repr \/ n.strm)

\* the objects with conversion methods: every combination of them
ObjNodes ==
    {n \in {Obj("object", r, s, c, t, b, ks) :
               r \in BOOLEAN, s \in BOOLEAN, c \in {"ok", "raises"},
               t \in {"none", "ok", "raises"}, b \in BOOLEAN, ks \in KidSeqs} :
        WellFormed(n)}

\* what such an object may refer to: a primitive, an object whose __repr__
\* raises, an object with to_dict(), a mapping of at most one value
LeafNodes ==
    {Prim("int"), Prim("str"),
     Obj("object", TRUE, FALSE, "raises", "none", FALSE, <<>>),
     Obj("object", FALSE, FALSE, "ok", "ok", TRUE, <<>>),
     Container("dict", <<>>)}
      \cup {Container("dict", <<a>>) : a \in Ids}

NotJsonInit ==
    /\ dirExists = TRUE
    /\ files = {}
    /\ mtime = [f \in FileIds |-> 0]
    /\ locked = {}
    /\ maxFiles = MaxLimit
    /\ pc = "idle"
    /\ CallIdle
    /\ SetupIdle
    /\ SingletonIdle
    /\ EventIdle

\* None is one object, and True and False are two
Realizable ==
    /\ Cardinality({o \in Ids : heap[o].kind = "NoneType"}) <= 1
    /\ Cardinality({o \in Ids : heap[o].kind = "bool"}) <= 2

JsonInit ==
    /\ NotJsonInit
    /\ heap \in [Ids -> GraphNodes]
    /\ Realizable
    /\ idReuse \in BOOLEAN
    /\ jsPc = "ready"
    /\ jsOut = NoNode

JsonObjInit ==
    /\ NotJsonInit
    /\ \E root \in ObjNodes, rest \in [Ids \ {Root} -> LeafNodes] :
         heap = [o \in Ids |-> IF o = Root THEN root ELSE rest[o]]
    /\ idReuse \in BOOLEAN
    /\ jsPc = "ready"
    /\ jsOut = NoNode

JsonNext == JsonableCall

SpecJson == JsonInit /\ [][JsonNext]_vars

SpecJsonObj == JsonObjInit /\ [][JsonNext]_vars

(***************************************************************************)
(* Retention: the claims C1 to C4, checked under SpecRetention.            *)
(***************************************************************************)
\* the files _delete_files is asked to delete: files[:qtd]
Selected == Range(Take(sortedFiles, qtd))

\* every file of S was read with a key not greater than any file of T
NotNewer(S, T) == \A s \in S, t \in T : keys[s] <= keys[t]

\* C1, as stated: after every completed call of cleanup_old_files on an
\* existing directory the number of *.log files is at most MAX_FILES.
C1_AtMostMaxFiles ==
    (pc = "done" /\ dirExists) => Cardinality(files) <= maxFiles

\* C1, amended: after every completed call on an existing directory the
\* number of *.log files is at most MAX_FILES plus the number of selected
\* files whose unlink() failed.
C1_AtMostMaxFilesPlusFailed ==
    (pc = "done" /\ dirExists) =>
        Cardinality(files) <= maxFiles + Cardinality(failed)

\* a call has returned after it deleted one file and failed to delete another
C1_Witness ==
    pc = "done" /\ dirExists /\ removed # {} /\ failed # {}

\* C2, as stated: files are removed only when n >= MAX_FILES, and then
\* exactly the n - MAX_FILES + 1 files with the smallest modification times
\* are removed; nothing is removed when n < MAX_FILES or without directory.
C2_RemovesExactlyOldest ==
    pc = "done" =>
        LET n == Cardinality(listing) IN
          /\ (~dirExists \/ n < maxFiles) => removed = {}
          /\ (dirExists /\ n >= maxFiles) =>
                /\ Cardinality(removed) = n - maxFiles + 1
                /\ NotNewer(removed, listing \ removed)

\* C2, amended: when n >= MAX_FILES the call selects exactly the
\* n - MAX_FILES + 1 listed files with the smallest modification times,
\* removes each of them whose unlink() succeeds and no other file; when
\* n < MAX_FILES or the directory does not exist it selects and removes none.
C2_SelectsExactlyOldest ==
    pc = "done" =>
        LET n == Cardinality(listing) IN
          /\ (~dirExists \/ n < maxFiles) => (removed = {} /\ failed = {})
          /\ (dirExists /\ n >= maxFiles) =>
                /\ Cardinality(Selected) = n - maxFiles + 1
                /\ Selected \subseteq listing
                /\ NotNewer(Selected, listing \ Selected)
                /\ removed \cup failed = Selected
                /\ removed \cap failed = {}
                /\ removed \cap files = {}

\* a call has returned after it removed some of the selected files, with the
\* count of listed files exactly at the limit or above it
C2_Witness ==
    /\ pc = "done"
    /\ Cardinality(listing) >= maxFiles
    /\ removed # {}
    /\ listing \ Selected # {}

\* no file the call listed has left the directory except by the call itself,
\* and every unlink() of the call succeeded
Undisturbed == failed = {} /\ files \cup removed = listing

C4_BestEffortNeverRaises ==
    /\ pc # "raised"
    /\ pc = "done" =>
          /\ removed \subseteq Selected
          /\ Selected \ failed \subseteq removed

(***************************************************************************)
(* Setup: the claim C5, checked under SpecSetup.                           *)
(***************************************************************************)
\* C5: a call of setup_logging made while the root logger has handlers
\* changes neither the handler list, nor the level, nor the exception
\* hooks, nor the log files on disk, whatever level it passes.
C5_RepeatedSetupIsNoOp ==
    [][(setupCalls' = setupCalls + 1 /\ handlers # <<>>) =>
          UNCHANGED <<handlers, loggerLevel, sysHook, threadHook, files, mtime>>]_vars

\* a later call that passed another level than the configured one has
\* returned at once, the logger still carrying the handlers of the first
C5_Witness ==
    /\ setupCalls >= 2
    /\ lastSetup.outcome = "skipped"
    /\ lastSetup.level # loggerLevel
    /\ handlers = <<ConsoleHandlerOf, FileHandlerOf(handlers[2].file)>>

(***************************************************************************)
(* Singleton: the claim C6, checked under SpecSingleton.                   *)
(***************************************************************************)
\* C6: every call returns the same instance; it carries the constructor
\* argument of the first call, and a write through any returned reference
\* is read through every one of them.
C6_SameInstanceEveryCall ==
    \A i \in 1..Len(calls) :
        /\ calls[i].ref = calls[1].ref
        /\ objs[calls[i].ref].value = calls[1].arg
        /\ objs[calls[i].ref].count = lastWrite

\* two calls with different arguments have returned, and the instance has
\* been written through one of the references
C6_Witness ==
    /\ Len(calls) >= 2
    /\ calls[2].arg # calls[1].arg
    /\ lastWrite > 0

(***************************************************************************)
(* jsonable: the claims C7 and C8, checked under SpecJson, and the claims  *)
(* C9 and C10, checked under SpecJsonObj.                                  *)
(***************************************************************************)
\* the value holds a string that stands for an object
RECURSIVE HasStr(_)
HasStr(n) == n.tag = "str" \/ \E i \in 1..Len(n.kids) : HasStr(n.kids[i])

\* the structurally identical value of an acyclic object of mappings,
\* sequences and primitives
RECURSIVE Ideal(_)
Ideal(o) ==
    IF IsPrim(o) THEN Node("prim", o, <<>>)
    ELSE Node(heap[o].kind, o, [i \in 1..Len(heap[o].kids) |-> Ideal(heap[o].kids[i])])

\* Root and all below it are mappings, lists and primitives, without cycle
PlainData ==
    \A o \in {Root} \cup Desc(Root) :
        /\ heap[o].kind \in PrimKinds \cup {"dict", "list"}
        /\ ~OnCycle(o)

\* C7: for every input that reaches itself through its values, elements,
\* fields or attributes, jsonable returns, without raising, a value that
\* holds at least one string fallback.
C7_CyclicInputReturns ==
    (jsPc # "ready" /\ OnCycle(Root)) => (jsPc = "returned" /\ HasStr(jsOut))

\* C8: for every acyclic value of mappings, lists and primitives, jsonable
\* returns the structurally identical value, every primitive unchanged at
\* every position, also where an object occurs at several positions.
C8_PlainDataUnchanged ==
    (jsPc # "ready" /\ PlainData) => (jsPc = "returned" /\ jsOut = Ideal(Root))

\* the conversions of the object o itself do not raise, nor do those below it
Quiet(o) == \A n \in {o} \cup Desc(o) : heap[n].conv = "ok" /\ heap[n].todict # "raises"

\* C9, as stated: an object whose type defines __str__ or __repr__ and also
\* to_dict is rendered as its string, never as the to_dict mapping.
C9_StringBeforeToDict ==
    (/\ jsPc # "ready"
     /\ heap[Root].repr \/ heap[Root].strm
     /\ heap[Root].todict = "ok"
     /\ Quiet(Root))
    => (jsPc = "returned" /\ jsOut = Node("str", Root, <<>>))

\* C9, amended: an object whose type defines __repr__ and also to_dict is
\* resolved by str(value): jsonable returns that string, or raises what
\* str(value) raises, and never returns the to_dict mapping.
C9_ReprBeforeToDict ==
    (jsPc # "ready" /\ heap[Root].repr /\ heap[Root].todict # "none") =>
        IF heap[Root].conv = "ok"
        THEN jsPc = "returned" /\ jsOut = Node("str", Root, <<>>)
        ELSE jsPc = "Error" /\ jsOut = NoNode

\* an object with __repr__ and a to_dict() of two values has been rendered
\* as its string
C9_Witness ==
    /\ jsPc = "returned"
    /\ heap[Root].repr
    /\ heap[Root].todict = "ok"
    /\ Len(heap[Root].kids) = 2
    /\ jsOut = Node("str", Root, <<>>)

\* C10: when to_dict() or the string conversion of the object raises,
\* jsonable goes on to the next rule and returns a value.
C10_ConversionErrorsNotPropagated ==
    (/\ jsPc # "ready"
     /\ heap[Root].todict = "raises" \/ heap[Root].conv = "raises"
     /\ \A n \in Desc(Root) : Quiet(n))
    => jsPc = "returned"

(***************************************************************************)
(* One logging call on the configured root logger: Logger.callHandlers     *)
(* hands the record to the console handler, then to the file handler.      *)
(***************************************************************************)
\* record.levelno
LevelNo(l) ==
    CASE l = "DEBUG" -> 10
      [] l = "INFO" -> 20
      [] l = "WARNING" -> 30
      [] l = "ERROR" -> 40
      [] l = "CRITICAL" -> 50

\* exc_info as a tuple of three, each part an object or None
ExcTriples ==
    {[set |-> TRUE, type |-> t, value |-> v, tb |-> b] :
        t \in BOOLEAN, v \in BOOLEAN, b \in BOOLEAN}

\* all three parts are set
ExcFull(e) == e.set /\ e.type /\ e.value /\ e.tb

\* exceptions that `except Exception` does not catch
BaseOnly == {"KeyboardInterrupt"}

\* what an argument of a logging call may be here: an int, an object whose
\* __repr__ raises, a dataclass instance of one field, a mapping of one value
ArgNodes ==
    {Prim("int"), Obj("object", TRUE, FALSE, "raises", "none", FALSE, <<>>)}
      \cup {Container("dataclass", <<a>>) : a \in Ids}
      \cup {Container("dict", <<a>>) : a \in Ids}

\* payload = jsonable(record.args[0]) if record.args is a tuple of one,
\* else jsonable(record.args).  The argument tuple is a Sequence, whose id
\* is the first in _seen; a mapping passed alone is record.args itself.
\* Without arguments there is no payload.
Payload(args) ==
    IF args = <<>> THEN Ret(Absent, St({}, 0, FALSE))
    ELSE LET r == JsKids(args, 0,
                         St(IF Len(args) = 1 THEN {} ELSE {<<0, 0>>}, 0, FALSE),
                         <<>>)
         IN  IF r.raised # "no" THEN Raise(r.raised, r.st)
             ELSE Ret(IF Len(args) = 1 THEN r.outs[1]
                      ELSE Node("list", 0, r.outs), r.st)

\* record.getMessage() raises: `msg % self.args` is evaluated when args are
\* given, and fails when they do not fit the placeholders of msg
GetMessageRaises == recArgs # <<>> /\ ~recFmtOk

\* something printed on the console
Item(kind, body, title, payload) ==
    [kind |-> kind, body |-> body, title |-> title, payload |-> payload]

BlankLine == Item("blank", "", "", Absent)

\* RichFormatter.format_exception: empty strings unless all three parts of
\* the triple are set
FormatException(e) ==
    IF ExcFull(e) THEN [body |-> "traceback", title |-> "exc_title"]
    ELSE [body |-> "", title |-> ""]

\* the four prints of _format_print_exc
ExcPrints(e) ==
    <<BlankLine,
      Item("banner", "message", "", Absent),
      Item("panel", FormatException(e).body, FormatException(e).title, Absent),
      BlankLine>>

\* `record.exc_info and record.levelno >= logging.ERROR`
ExcPath(e, level) == e.set /\ LevelNo(level) >= LevelNo("ERROR")

\* `except Exception`
Caught(exc) == exc \notin BaseOnly

\* what ConsoleHandler.emit prints and what is raised inside its try
\* statement, the payload of format_arguments being pay and the console
\* failing at its at-th print with the exception fault (at = 0: no failure)
ConsoleTry(pay, at, fault) ==
    LET excPath == ExcPath(recExc, recLevel)
        prints == IF excPath THEN ExcPrints(recExc)
                  ELSE <<Item("line", "message", "", pay.out)>>
    IN  IF GetMessageRaises
        THEN \* record.getMessage(), before anything is printed
             [out |-> <<>>, raised |-> "TypeError"]
        ELSE IF ~excPath /\ pay.raised # "no"
        THEN \* render_message: format_arguments
             [out |-> <<>>, raised |-> pay.raised]
        ELSE IF at \in 1..Len(prints)
        THEN [out |-> Take(prints, at - 1), raised |-> fault]
        ELSE [out |-> prints, raised |-> "no"]

\* the end of a handler's emit: the exception raised in the try statement
\* is handed to handleError, or leaves emit
EmitEnd(handler, raised, reraised, next) ==
    IF raised = "no"
    THEN /\ logPc' = next
         /\ UNCHANGED <<handled, propagated>>
    ELSE IF raised \notin reraised /\ Caught(raised)
    THEN \* self.handleError(record)
         /\ handled' = handled \cup {handler}
         /\ logPc' = next
         /\ UNCHANGED propagated
    ELSE /\ propagated' = raised
         /\ logPc' = "raised"
         /\ UNCHANGED handled

ConsoleDone(t) ==
    /\ conOut' = t.out
    /\ EmitEnd("console", t.raised, {}, "file")

\* ConsoleHandler.emit(record)
ConsoleEmit ==
    /\ logPc = "console"
    /\ \E at \in 0..4, fault \in {"OSError", "KeyboardInterrupt"} :
         ConsoleDone(ConsoleTry(Payload(recArgs), at, fault))
    /\ UNCHANGED <<fileRec, recordVars, hookVars, textVars, createVars, moreVars>>
    /\ UNCHANGED <<retentionVars, setupVars, singletonVars, jsonVars>>

\* SafeJsonFormatter.add_fields: customargs when record.args is true, the
\* three exception fields when record.exc_info is true; exc_name is the name
\* of the type when the triple has one
AddFields(pay, e) ==
    [raised |-> pay.raised,
     rec |-> [written |-> TRUE, customargs |-> pay.out, excKeys |-> e.set,
              excName |-> e.set /\ e.type]]

\* what the try statement of logging.StreamHandler.emit raises: format with
\* SafeJsonFormatter, then write and flush, which fail with the exception
\* fault when wfails
FileTry(built, wfails, fault) ==
    [rec |-> built.rec,
     raised |-> IF GetMessageRaises THEN "TypeError"
                ELSE IF built.raised # "no" THEN built.raised
                ELSE IF wfails THEN fault
                ELSE "no"]

FileDone(t) ==
    /\ fileRec' = IF t.raised = "no" THEN t.rec ELSE fileRec
    /\ EmitEnd("file", t.raised, {"RecursionError"}, "returned")

\* logging.StreamHandler.emit(record), which JsonCustomFileHandler inherits:
\* `except RecursionError: raise`, `except Exception: self.handleError(record)`
FileEmit ==
    /\ logPc = "file"
    /\ \E wfails \in BOOLEAN, fault \in {"OSError", "KeyboardInterrupt"} :
         FileDone(FileTry(AddFields(Payload(recArgs), recExc), wfails, fault))
    /\ UNCHANGED <<conOut, recordVars, hookVars, textVars, createVars, moreVars>>
    /\ UNCHANGED <<retentionVars, setupVars, singletonVars, jsonVars>>

\* the objects the arguments reach
ArgObjs(args) == Range(args) \cup UNION {Desc(a) : a \in Range(args)}

\* the state setup_logging(level="DEBUG") leaves behind when it is the first
\* call in an empty directory
Configured ==
    /\ dirExists = TRUE
    /\ files = {1}
    /\ mtime = [f \in FileIds |-> IF f = 1 THEN 1 ELSE 0]
    /\ locked = {}
    /\ maxFiles = MaxLimit
    /\ pc = "idle"
    /\ CallIdle
    /\ now = 1
    /\ handlers = <<ConsoleHandlerOf, FileHandlerOf(1)>>
    /\ loggerLevel = "DEBUG"
    /\ sysHook = 1
    /\ threadHook = 1
    /\ setupCalls = 1
    /\ lastSetup = [level |-> "DEBUG", outcome |-> "configured"]
    /\ SingletonIdle

\* a call on the configured root logger, with any level, arguments and
\* exc_info, is about to reach the handlers.  Objects the arguments do not
\* reach are left out of account (they are ints).
LogInit ==
    /\ Configured
    /\ heap \in [Ids -> ArgNodes]
    /\ idReuse = FALSE
    /\ jsPc = "ready"
    /\ jsOut = NoNode
    /\ recArgs \in KidSeqs
    /\ \A o \in Ids \ ArgObjs(recArgs) : heap[o] = Prim("int")
    /\ recLevel \in LOG_LEVELS
    /\ recExc \in {NoExc} \cup ExcTriples
    /\ recFmtOk \in BOOLEAN
    /\ recArgs = <<>> => recFmtOk
    /\ recFmtOk => \A i \in 1..Len(recArgs) : ~StrRaises(recArgs[i])
    /\ logPc = "console"
    /\ conOut = <<>>
    /\ handled = {}
    /\ fileRec = NoFileRec
    /\ propagated = "no"
    /\ HooksIdle
    /\ TextIdle
    /\ CreateIdle
    /\ MoreIdle

LogNext ==
    \/ ConsoleEmit
    \/ FileEmit

SpecLog == LogInit /\ [][LogNext]_vars

(***************************************************************************)
(* The logging call: the claims C11 to C14, checked under SpecLog.         *)
(***************************************************************************)
\* the serialization of the argument a taken alone
Serialized(a) == Jsonable(a).out

\* C11: in a written file record customargs is present exactly when the
\* call had arguments; with one argument it is the serialization of that
\* argument, and with two or more it is the list of the serializations of
\* the arguments in call order.
C11_CustomArgsAreTheArguments ==
    (logPc = "returned" /\ fileRec.written) =>
        /\ (fileRec.customargs # Absent) <=> (recArgs # <<>>)
        /\ Len(recArgs) = 1 => fileRec.customargs = Serialized(recArgs[1])
        /\ Len(recArgs) >= 2 =>
              fileRec.customargs =
                  Node("list", 0, [i \in 1..Len(recArgs) |-> Serialized(recArgs[i])])

\* the console handler has returned from emit without a failure
ConsoleDoneClean == logPc = "file" /\ "console" \notin handled

\* the standard single line, with the argument panel when there are arguments
StandardLine ==
    /\ Len(conOut) = 1
    /\ conOut[1].kind = "line"
    /\ (conOut[1].payload # Absent) <=> (recArgs # <<>>)

\* C12: a triple with a part that is None is not taken for exception info:
\* the file record has none of exc_info, exc_name, exc_message, and the
\* console prints the standard single line, no banner and no panel.
C12_PartialTripleIsNoException ==
    (recExc.set /\ ~ExcFull(recExc)) =>
        /\ fileRec.written => ~fileRec.excKeys
        /\ ConsoleDoneClean => StandardLine

\* C13: emit takes one rendering path: for a record at ERROR or above that
\* carries exception info it prints a blank line, the banner, the panel with
\* the exception body and title, and a blank line, and nothing else; for
\* every other record it prints the standard single line, with the argument
\* panel exactly when the record has arguments.
C13_OneRenderingPath ==
    ConsoleDoneClean =>
        IF ExcFull(recExc) /\ LevelNo(recLevel) >= LevelNo("ERROR")
        THEN conOut = <<BlankLine,
                        Item("banner", "message", "", Absent),
                        Item("panel", "traceback", "exc_title", Absent),
                        BlankLine>>
        ELSE StandardLine

\* C14: no exception derived from Exception that is raised while a handler
\* formats or writes the record leaves the logging call: the call returns
\* to the host application.
C14_EmitNeverPropagates ==
    propagated \in {"no"} \cup BaseOnly

(***************************************************************************)
(* Uncaught exceptions.  sys.excepthook and threading.excepthook hold 0,   *)
(* the interpreter's own hook, or k, the hook that the k-th call of        *)
(* setup_logging installed.  The interpreter calls the hook in place with  *)
(* the exception; a log message is the text and the thread name that       *)
(* follows " in thread ", "" when there is no such suffix.                 *)
(***************************************************************************)
\* the exception types raised: the last is a subclass of KeyboardInterrupt
ExcTypes == {"ValueError", "KeyboardInterrupt", "UserAbort"}

\* issubclass(exc_type, KeyboardInterrupt)
IsKeyboardInterrupt(t) == t \in {"KeyboardInterrupt", "UserAbort"}

\* a variant of HookMsg: one message for every exception type
HookMsgSame(t) == "Unhandled exception"

\* msg of _hook and of _thread_hook
HookMsg(t) ==
    IF IsKeyboardInterrupt(t) THEN "Keyboard interrupt exception"
    ELSE "Unhandled exception"

\* the interpreter passes args.thread, whose name is read; without a thread
\* the name is "MainThread"
ThreadNames == {"worker"}

NameOf(thread) == IF thread = "none" THEN "MainThread" ELSE thread

\* logger_.critical(msg, exc_info=...)
Critical(text, thread, e) ==
    [level |-> "CRITICAL", text |-> text, thread |-> thread, exc |-> e]

\* the exc_info of an exception of type t with its value and traceback
Triple(t, tb) == [set |-> TRUE, type |-> t, value |-> TRUE, tb |-> tb]

\* (None, None, None)
NoneTriple == [set |-> TRUE, type |-> "", value |-> FALSE, tb |-> FALSE]

\* _hook(exc_type, exc_value, exc_tb) of _install_sys_excepthook
SysHookLogs(t) == <<Critical(HookMsg(t), "", Triple(t, TRUE))>>

\* _thread_hook(args): exc_info is the triple when the type and the
\* traceback are given (a missing value is made with exc_type()), else
\* three Nones
ThreadHookLogs(t, thread, tb) ==
    <<Critical(HookMsg(t), NameOf(thread),
               IF tb THEN Triple(t, TRUE) ELSE NoneTriple)>>

\* an exception of type t leaves the main thread: the interpreter calls
\* sys.excepthook, and its own hook only prints the traceback
UncaughtTopLevel(t) ==
    /\ Len(uncaught) < MaxUncaught
    /\ uncaught' = Append(uncaught,
                     [origin |-> "main", type |-> t, thread |-> "", tb |-> TRUE,
                      ran |-> <<sysHook>>,
                      logs |-> IF sysHook = 0 THEN <<>> ELSE SysHookLogs(t)])
    /\ UNCHANGED <<retentionVars, setupVars, singletonVars, jsonVars,
                   recordVars, emitVars, textVars, createVars>>
    /\ UNCHANGED moreVars

\* an exception of type t leaves the run() of a thread: threading calls
\* threading.excepthook with ExceptHookArgs, whose thread and
\* exc_traceback may be None
UncaughtInThread(t, thread, tb) ==
    /\ Len(uncaught) < MaxUncaught
    /\ uncaught' = Append(uncaught,
                     [origin |-> "thread", type |-> t, thread |-> thread,
                      tb |-> tb, ran |-> <<threadHook>>,
                      logs |-> IF threadHook = 0 THEN <<>>
                               ELSE ThreadHookLogs(t, thread, tb)])
    /\ UNCHANGED <<retentionVars, setupVars, singletonVars, jsonVars,
                   recordVars, emitVars, textVars, createVars>>
    /\ UNCHANGED moreVars

UncaughtTopLevelAny == \E t \in ExcTypes : UncaughtTopLevel(t)

UncaughtInThreadAny ==
    \E t \in ExcTypes, thread \in ThreadNames \cup {"none"}, tb \in BOOLEAN :
        UncaughtInThread(t, thread, tb)

\* an empty log directory
HooksInit ==
    /\ SetupInit
    /\ files = {}
    /\ maxFiles = 1

\* setup_logging() with its default level
SetupLoggingDefault == \E opens \in BOOLEAN : SetupLogging("DEBUG", opens)

HooksNext ==
    \/ SetupLoggingDefault
    \/ ClearHandlers
    \/ UncaughtTopLevelAny
    \/ UncaughtInThreadAny

SpecHooks == HooksInit /\ [][HooksNext]_vars

(***************************************************************************)
(* Uncaught exceptions: the claim C15, checked under SpecHooks.            *)
(***************************************************************************)
\* the uncaught exceptions that met a hook of setup_logging
Hooked(i) == uncaught[i].ran # <<0>>

\* C15, as stated: once setup_logging has installed its hooks, an uncaught
\* exception makes exactly one CRITICAL log call that carries the triple of
\* the exception; its message is "Keyboard interrupt exception" for a
\* KeyboardInterrupt subclass, else "Unhandled exception", which a thread
\* suffixes with " in thread <name>"; only the installed hook runs.
C15_OneCriticalCallAsStated ==
    \A i \in 1..Len(uncaught) :
        Hooked(i) =>
            LET u == uncaught[i] IN
              /\ Len(u.ran) = 1
              /\ Len(u.logs) = 1
              /\ u.logs[1].level = "CRITICAL"
              /\ u.logs[1].exc = Triple(u.type, TRUE)
              /\ u.logs[1].text = HookMsg(u.type)
              /\ u.logs[1].thread =
                   IF u.origin = "thread" /\ ~IsKeyboardInterrupt(u.type)
                   THEN u.thread ELSE ""

\* C15, amended: the suffix " in thread <name>" follows either message of
\* a thread, the name being "MainThread" when the hook is given no thread,
\* and the call carries the triple of the exception unless the thread hook
\* is given no traceback, when it carries three Nones.
C15_OneCriticalCall ==
    \A i \in 1..Len(uncaught) :
        Hooked(i) =>
            LET u == uncaught[i] IN
              /\ Len(u.ran) = 1
              /\ Len(u.logs) = 1
              /\ u.logs[1].level = "CRITICAL"
              /\ u.logs[1].exc =
                   IF u.tb THEN Triple(u.type, TRUE) ELSE NoneTriple
              /\ u.logs[1].text =
                   IF u.type \in {"KeyboardInterrupt", "UserAbort"}
                   THEN "Keyboard interrupt exception"
                   ELSE "Unhandled exception"
              /\ u.logs[1].thread =
                   IF u.origin = "main" THEN ""
                   ELSE IF u.thread = "none" THEN "MainThread" ELSE u.thread

\* a KeyboardInterrupt subclass has left a thread, and an exception the
\* main thread, after a second setup_logging replaced the hooks
C15_Witness ==
    /\ Len(uncaught) = 2
    /\ uncaught[1].origin = "thread"
    /\ uncaught[1].type = "UserAbort"
    /\ uncaught[1].thread = "worker"
    /\ uncaught[1].ran = <<1>>
    /\ uncaught[2].origin = "main"
    /\ uncaught[2].ran = <<2>>

(***************************************************************************)
(* CompactTracebackFormatter.format.  The frames of a traceback are        *)
(* numbered from the oldest caller, 1, to the frame that raised; a line    *)
(* of the summary is the frame it describes and its form: "in" for         *)
(* `path:line in function`, "quoted" for `path:line  "source text"`.       *)
(***************************************************************************)
\* seq[start:] of Python
SliceFrom(seq, start) ==
    LET n == Len(seq)
        from == IF start < 0 THEN (IF n + start < 0 THEN 0 ELSE n + start)
                ELSE (IF start > n THEN n ELSE start)
    IN  SubSeq(seq, from + 1, n)

\* traceback.extract_tb(tb), oldest frame first
ExtractTb(n) == [i \in 1..n |-> i]

\* a variant of LastFrames: the frames are cut from the newest end
LastFramesOldest(frames, maxFrames) ==
    IF maxFrames # 0 /\ Len(frames) > maxFrames THEN SubSeq(frames, 1, maxFrames)
    ELSE frames

\* frames[-self.max_frames :] if self.max_frames else frames
LastFrames(frames, maxFrames) ==
    IF maxFrames # 0 THEN SliceFrom(frames, 0 - maxFrames) ELSE frames

\* the list `formatted`: a line for each frame but the last, then the line
\* of the last frame with its source text
Formatted(frames) ==
    [i \in 1..Len(frames) |->
        [frame |-> frames[i],
         form |-> IF i < Len(frames) THEN "in" ELSE "quoted"]]

\* format(exc_info) of a formatter with max_frames: the lines that are
\* joined with "\n ", whether exc_name is the name of the type (else ""),
\* and whether exc_msg is str(exc_val) (else "")
FormatTb(a) ==
    [lines |-> Formatted(LastFrames(ExtractTb(a.frames), a.maxFrames)),
     name |-> a.type,
     msg |-> a.value]

TbFormat ==
    /\ textPc = "ready"
    /\ tbOut' = FormatTb(tbIn)
    /\ textPc' = "returned"
    /\ UNCHANGED <<tbIn, emIn, emOut, phIn, phOut>>
    /\ UNCHANGED <<retentionVars, setupVars, singletonVars, jsonVars,
                   recordVars, emitVars, hookVars, createVars>>
    /\ UNCHANGED moreVars

\* a text function is called, and nothing else happens
NotTextInit ==
    /\ dirExists = TRUE
    /\ files = {}
    /\ mtime = [f \in FileIds |-> 0]
    /\ locked = {}
    /\ maxFiles = MaxLimit
    /\ pc = "idle"
    /\ CallIdle
    /\ SetupIdle
    /\ SingletonIdle
    /\ JsonIdle
    /\ LogIdle
    /\ HooksIdle
    /\ CreateIdle
    /\ MoreIdle

\* a formatter with any max_frames, no limit included, and the exc_info of
\* an exception with a traceback of any depth, or with parts that are None
TbInit ==
    /\ NotTextInit
    /\ textPc = "ready"
    /\ tbIn \in [maxFrames : 0..MaxFrames, type : BOOLEAN, value : BOOLEAN,
                 frames : 0..MaxStack]
    /\ tbOut = NoSummary
    /\ emIn = NoText
    /\ emOut = <<>>
    /\ phIn = <<>>
    /\ phOut = <<>>

TbNext == TbFormat

SpecTraceback == TbInit /\ [][TbNext]_vars

(***************************************************************************)
(* The traceback summary: the claim C16, checked under SpecTraceback.      *)
(***************************************************************************)
Min(a, b) == IF a < b THEN a ELSE b

\* the lines describe the k innermost frames of n, oldest first, and only
\* the last of them quotes the source text
InnermostLines(lines, k, n) ==
    /\ Len(lines) = k
    /\ \A i \in 1..k :
         /\ lines[i].frame = n - k + i
         /\ lines[i].form = IF i = k THEN "quoted" ELSE "in"

EMOJI_RE ==
    {<<128512, 128591>>,
     <<127744, 128511>>,
     <<128640, 128767>>,
     <<127456, 127487>>,
     <<9728, 9983>>,
     <<9984, 10175>>}

InRanges(c, ranges) == \E r \in ranges : r[1] <= c /\ c <= r[2]

\* the code points of the texts: a letter, a space, and code points at the
\* ends of and between the blocks of symbols, from U+2300 to U+1FB00
CodePoints ==
    {97, 32, 8960, 9200, 9728, 9983,
     9984, 10175, 10176, 11088, 127462, 127744,
     128511, 128512, 128591, 128592, 128640, 128767,
     128768, 129302, 129791, 129792}

\* the texts of at most n code points
TextsUpTo(n) == UNION {[1..k -> CodePoints] : k \in 0..n}

\* `self._EMOJI_RE.sub("", text) if text else ""`: every run of code
\* points of the set is deleted
StripEmojis(a) ==
    IF a.none \/ a.text = <<>> THEN <<>>
    ELSE LET Kept(c) == ~InRanges(c, EMOJI_RE) IN SelectSeq(a.text, Kept)

StripEmojisCall ==
    /\ textPc = "ready"
    /\ emOut' = StripEmojis(emIn)
    /\ textPc' = "returned"
    /\ UNCHANGED <<tbIn, tbOut, emIn, phIn, phOut>>
    /\ UNCHANGED <<retentionVars, setupVars, singletonVars, jsonVars,
                   recordVars, emitVars, hookVars, createVars>>
    /\ UNCHANGED moreVars

\* strip_emojis(None) or strip_emojis(text)
EmojiInit ==
    /\ NotTextInit
    /\ textPc = "ready"
    /\ emIn \in {NoText} \cup {[none |-> FALSE, text |-> t] : t \in TextsUpTo(MaxEmojiLen)}
    /\ emOut = <<>>
    /\ tbIn = NoTb
    /\ tbOut = NoSummary
    /\ phIn = <<>>
    /\ phOut = <<>>

EmojiNext == StripEmojisCall

SpecEmoji == EmojiInit /\ [][EmojiNext]_vars

(***************************************************************************)
(* strip_emojis: the claim C17, checked under SpecEmoji.                   *)
(***************************************************************************)
\* the blocks the claim names: U+1F300-U+1FAFF, U+2600-U+27BF,
\* U+2300-U+23FF and U+2B50
ClaimedBlocks ==
    {<<127744, 129791>>, <<9728, 10175>>, <<8960, 9215>>, <<11088, 11088>>}

NotClaimed(c) == ~InRanges(c, ClaimedBlocks)

\* C17: strip_emojis returns the text without the code points of the
\* blocks U+1F300-U+1FAFF, U+2600-U+27BF, U+2300-U+23FF and U+2B50, every
\* other code point kept in its order, and the empty text for None and for
\* the empty text.
C17_DeletesTheEmojiBlocks ==
    textPc = "returned" =>
        emOut = IF emIn.none THEN <<>> ELSE SelectSeq(emIn.text, NotClaimed)

(***************************************************************************)
(* LogModel.remove_placeholders.  A text is the sequence of its            *)
(* characters.  _PLACEHOLDER_RE is matched as the regular-expression       *)
(* engine matches it, from a "%" to the right: each optional part takes    *)
(* what it can, and since no character that one part takes can begin or    *)
(* end a later part, giving characters back never makes a failed match     *)
(* succeed or moves the end of a match.                                    *)
(***************************************************************************)
\* [-+#0\s]: the texts hold no whitespace but the space
FlagChars == {"-", "+", "#", "0", " "}

\* \d
DigitChars == {"0", "1", "2", "3", "4", "5", "6", "7", "8", "9"}

\* [bcdeEfFgGnosxXrs%]
TypeChars ==
    {"b", "c", "d", "e", "E", "f", "F", "g", "G", "n", "o", "s", "x", "X",
     "r", "%"}

\* the characters str.strip() removes
Whitespace == {" "}

\* text[i], or "" past the end of the text
At(text, i) == IF i \in 1..Len(text) THEN text[i] ELSE ""

\* the first position from i whose character is not in chars
RECURSIVE SkipWhile(_, _, _)
SkipWhile(text, i, chars) ==
    IF At(text, i) \in chars THEN SkipWhile(text, i + 1, chars) ELSE i

\* (?:\([^)]+\))? at position i: the position after the match
SkipNamed(text, i) ==
    IF At(text, i) # "(" THEN i
    ELSE LET close == SkipWhile(text, i + 1,
                                {text[k] : k \in 1..Len(text)} \ {")"})
         IN  IF close > i + 1 /\ At(text, close) = ")" THEN close + 1 ELSE i

\* (?:\d+|\*)? at position i
SkipWidth(text, i) ==
    IF At(text, i) = "*" THEN i + 1 ELSE SkipWhile(text, i, DigitChars)

\* (?:\.(?:\d+|\*))? at position i
SkipPrecision(text, i) ==
    IF At(text, i) # "." THEN i
    ELSE IF At(text, i + 1) = "*" THEN i + 2
    ELSE IF At(text, i + 1) \in DigitChars
    THEN SkipWhile(text, i + 1, DigitChars)
    ELSE i

\* the position after the match of _PLACEHOLDER_RE that begins at i, or 0
\* when there is none
MatchEnd(text, i) ==
    IF At(text, i) # "%" THEN 0
    ELSE LET j == SkipPrecision(text,
                    SkipWidth(text,
                      SkipWhile(text, SkipNamed(text, i + 1), FlagChars)))
         IN  IF At(text, j) \in TypeChars THEN j + 1 ELSE 0

\* a variant of SubFrom: only the first match is deleted
SubFromOnce(text, i) ==
    LET starts == {k \in i..Len(text) : MatchEnd(text, k) # 0} IN
      IF starts = {} THEN SubSeq(text, i, Len(text))
      ELSE LET k == CHOOSE m \in starts : \A h \in starts : m <= h
           IN  SubSeq(text, i, k - 1) \o SubSeq(text, MatchEnd(text, k), Len(text))

\* _PLACEHOLDER_RE.sub("", text) from position i: the matches are found
\* from left to right, each search beginning where the last match ended
RECURSIVE SubFrom(_, _)
SubFrom(text, i) ==
    IF i > Len(text) THEN <<>>
    ELSE IF MatchEnd(text, i) # 0 THEN SubFrom(text, MatchEnd(text, i))
    ELSE <<text[i]>> \o SubFrom(text, i + 1)

RECURSIVE LStrip(_)
LStrip(text) ==
    IF text # <<>> /\ Head(text) \in Whitespace THEN LStrip(Tail(text))
    ELSE text

RECURSIVE RStrip(_)
RStrip(text) ==
    IF text # <<>> /\ text[Len(text)] \in Whitespace
    THEN RStrip(SubSeq(text, 1, Len(text) - 1))
    ELSE text

\* a variant of Strip: runs of whitespace inside the text are made one
\* space as well
StripAndCollapse(text) ==
    LET t == LStrip(RStrip(text))
        Single(i) == ~(t[i] \in Whitespace /\ t[i - 1] \in Whitespace)
    IN  [k \in 1..Cardinality({i \in 1..Len(t) : Single(i)}) |->
            t[CHOOSE i \in 1..Len(t) :
                /\ Single(i)
                /\ Cardinality({h \in 1..i : Single(h)}) = k]]

\* str.strip()
Strip(text) == LStrip(RStrip(text))

\* return self._PLACEHOLDER_RE.sub("", text).strip()
RemovePlaceholders(text) == Strip(SubFrom(text, 1))

RemovePlaceholdersCall ==
    /\ textPc = "ready"
    /\ phOut' = RemovePlaceholders(phIn)
    /\ textPc' = "returned"
    /\ UNCHANGED <<tbIn, tbOut, emIn, emOut, phIn>>
    /\ UNCHANGED <<retentionVars, setupVars, singletonVars, jsonVars,
                   recordVars, emitVars, hookVars, createVars>>
    /\ UNCHANGED moreVars

\* the characters of the short texts
PhChars == {" ", "a", "s", "%", "(", ")", ".", "2"}

\* "Processing user %s with ID %d"
ProcessingUser ==
    <<"P", "r", "o", "c", "e", "s", "s", "i", "n", "g", " ", "u", "s", "e",
      "r", " ", "%", "s", " ", "w", "i", "t", "h", " ", "I", "D", " ", "%",
      "d">>

\* "User %s with ID %d"
UserWithId ==
    <<"U", "s", "e", "r", " ", "%", "s", " ", "w", "i", "t", "h", " ", "I",
      "D", " ", "%", "d">>

\* "Field %(name)s value %-08.2f: 100%% of %*d"
FieldValue ==
    <<"F", "i", "e", "l", "d", " ", "%", "(", "n", "a", "m", "e", ")", "s",
      " ", "v", "a", "l", "u", "e", " ", "%", "-", "0", "8", ".", "2", "f",
      ":", " ", "1", "0", "0", "%", "%", " ", "o", "f", " ", "%", "*",
      "d">>

\* remove_placeholders(text) for a text of at most MaxPhLen characters, or
\* for one of the three messages
PlaceholdersInit ==
    /\ NotTextInit
    /\ textPc = "ready"
    /\ phIn \in UNION {[1..k -> PhChars] : k \in 0..MaxPhLen}
                  \cup {ProcessingUser, UserWithId, FieldValue}
    /\ phOut = <<>>
    /\ tbIn = NoTb
    /\ tbOut = NoSummary
    /\ emIn = NoText
    /\ emOut = <<>>

PlaceholdersNext == RemovePlaceholdersCall

SpecPlaceholders == PlaceholdersInit /\ [][PlaceholdersNext]_vars

AllIn(w, from, to, chars) == \A k \in from..to : w[k] \in chars

IsName(w, from, to) ==
    \/ to < from
    \/ /\ to >= from + 2
       /\ w[from] = "("
       /\ w[to] = ")"
       /\ \A k \in (from + 1)..(to - 1) : w[k] # ")"

IsWidth(w, from, to) ==
    \/ to < from
    \/ AllIn(w, from, to, DigitChars)
    \/ (to = from /\ w[from] = "*")

IsPrecision(w, from, to) ==
    \/ to < from
    \/ /\ to > from
       /\ w[from] = "."
       /\ IsWidth(w, from + 1, to)

IsPlaceholder(w) ==
    /\ Len(w) >= 2
    /\ w[1] = "%"
    /\ w[Len(w)] \in TypeChars
    /\ \E p1 \in 1..(Len(w) - 1) : \E p2 \in p1..(Len(w) - 1) :
         \E p3 \in p2..(Len(w) - 1) :
           /\ IsName(w, 2, p1)
           /\ AllIn(w, p1 + 1, p2, FlagChars)
           /\ IsWidth(w, p2 + 1, p3)
           /\ IsPrecision(w, p3 + 1, Len(w) - 1)

\* the positions after the placeholders that begin at i
Ends(text, i) ==
    IF text[i] # "%" THEN {}
    ELSE {e \in (i + 2)..(Len(text) + 1) : IsPlaceholder(SubSeq(text, i, e - 1))}

\* the text from i without its placeholders, taken from left to right
RECURSIVE Deleted(_, _)
Deleted(text, i) ==
    IF i > Len(text) THEN <<>>
    ELSE IF Ends(text, i) # {}
    THEN Deleted(text, CHOOSE e \in Ends(text, i) : TRUE)
    ELSE <<text[i]>> \o Deleted(text, i + 1)

\* t is d without its leading and trailing spaces
Trimmed(t, d) ==
    /\ \E a \in 0..Len(d) : \E b \in 0..(Len(d) - a) :
         /\ \A k \in 1..a : d[k] = " "
         /\ \A k \in (Len(d) - b + 1)..Len(d) : d[k] = " "
         /\ t = SubSeq(d, a + 1, Len(d) - b)
    /\ t # <<>> => (t[1] # " " /\ t[Len(t)] # " ")

FhEvent(op, f, by) == [op |-> op, file |-> f, by |-> by]

\* JsonCustomFileHandler(): logging.FileHandler.__init__ opens the file
OpenLogFile(f) ==
    /\ files' = files \cup {f}
    /\ mtime' = [mtime EXCEPT ![f] = now]

\* LoggingManager() for the first time: the default factory of the field
\* FILE_HANDLER constructs a JsonCustomFileHandler
BuildManager ==
    /\ ~managerBuilt
    /\ now \in FileIds
    /\ managerBuilt' = TRUE
    /\ OpenLogFile(now)
    /\ fhLog' = Append(fhLog, FhEvent("open", now, "LoggingManager"))
    /\ UNCHANGED <<dirExists, locked, maxFiles, callVars, setupVars,
                   singletonVars, jsonVars, recordVars, emitVars, hookVars,
                   textVars>>
    /\ UNCHANGED moreVars

\* self.FILE_HANDLER.create_file_handler(file_formatter) of setup_logging:
\* cleanup_old_files(), then cls(**kwargs)
CreateFileHandler ==
    /\ managerBuilt
    /\ now \in FileIds
    /\ Len(fhLog) + 2 <= MaxFhLog
    /\ \E order \in Perms(files) :
         LET kept == CleanupResult(files, mtime, locked, maxFiles, order) IN
           /\ files' = kept \cup {now}
           /\ mtime' = [f \in FileIds |->
                          IF f = now THEN now
                          ELSE IF f \in kept THEN mtime[f] ELSE 0]
    /\ fhLog' = fhLog \o <<FhEvent("cleanup", 0, "create_file_handler"),
                           FhEvent("open", now, "create_file_handler")>>
    /\ UNCHANGED <<dirExists, locked, maxFiles, managerBuilt, callVars,
                   setupVars, singletonVars, jsonVars, recordVars, emitVars,
                   hookVars, textVars>>
    /\ UNCHANGED moreVars

\* the files of the handlers that create_file_handler returned; setup_logging
\* attaches them to the logger
Attached ==
    {fhLog[i].file : i \in {k \in 1..Len(fhLog) :
                              /\ fhLog[k].op = "open"
                              /\ fhLog[k].by = "create_file_handler"}}

\* a variant of WriteRecord: the handler reopens a file named by the clock
\* when the second has changed
WriteRecordRotating(f) ==
    /\ f \in Attached
    /\ f \in files
    /\ now \in FileIds
    /\ Len(fhLog) < MaxFhLog
    /\ fhLog' = Append(fhLog, FhEvent("write", now, "emit"))
    /\ files' = files \cup {now}
    /\ mtime' = [mtime EXCEPT ![now] = now]
    /\ UNCHANGED <<dirExists, locked, maxFiles, managerBuilt, callVars,
                   setupVars, singletonVars, jsonVars, recordVars, emitVars,
                   hookVars, textVars>>
    /\ UNCHANGED moreVars

\* a record is written by an attached handler to its file: the stream that
\* __init__ opened is written to, whatever the record and the time
WriteRecord(f) ==
    /\ f \in Attached
    /\ f \in files
    /\ Len(fhLog) < MaxFhLog
    /\ fhLog' = Append(fhLog, FhEvent("write", f, "emit"))
    /\ mtime' = [mtime EXCEPT ![f] = now]
    /\ UNCHANGED <<dirExists, files, locked, maxFiles, managerBuilt, callVars,
                   setupVars, singletonVars, jsonVars, recordVars, emitVars,
                   hookVars, textVars>>
    /\ UNCHANGED moreVars

WriteRecordAny == \E f \in FileIds : WriteRecord(f)

CreateNext ==
    \/ BuildManager
    \/ CreateFileHandler
    \/ WriteRecordAny
    \/ Tick

SpecCreate == SetupInit /\ [][CreateNext]_vars

(***************************************************************************)
(* The creation of file handlers: the claim C20, checked under SpecCreate. *)
(***************************************************************************)
\* C20: every opening of a log file by a new JsonCustomFileHandler comes
\* directly after one completed run of cleanup_old_files, that of its own
\* creation, and a record is written to a file only after such an opening;
\* the handler that LoggingManager() constructs is no exception.
C20_CleanupBeforeEveryOpen ==
    \A i \in 1..Len(fhLog) :
        /\ fhLog[i].op = "open" =>
             /\ i > 1
             /\ fhLog[i - 1].op = "cleanup"
             /\ i > 2 => fhLog[i - 2].op # "cleanup"
        /\ fhLog[i].op = "write" =>
             \E j \in 2..(i - 1) :
                 /\ fhLog[j].op = "open"
                 /\ fhLog[j].file = fhLog[i].file
                 /\ fhLog[j - 1].op = "cleanup"

(***************************************************************************)
(* Process starts.  A process constructs LoggingManager and calls          *)
(* setup_logging; when it ends, the next process begins with an empty      *)
(* `instances` of the singleton decorator and finds the log files the      *)
(* earlier processes left in the dated directory.                          *)
(***************************************************************************)
\* the process ends after its setup_logging: its manager and its handlers
\* are gone, the files stay
ProcessExit ==
    /\ managerBuilt
    /\ Attached # {}
    /\ managerBuilt' = FALSE
    /\ fhLog' = <<>>
    /\ UNCHANGED <<retentionVars, setupVars, singletonVars, jsonVars,
                   recordVars, emitVars, hookVars, textVars>>
    /\ UNCHANGED moreVars

\* the dated directory holds the log files of earlier processes, at most
\* MAX_FILES of them
StartsInit ==
    /\ SetupInit
    /\ Cardinality(files) <= maxFiles

StartsNext ==
    \/ BuildManager
    \/ CreateFileHandler
    \/ WriteRecordAny
    \/ ProcessExit
    \/ Tick

SpecStarts == StartsInit /\ [][StartsNext]_vars

(***************************************************************************)
(* Process starts: the claim C21, checked under SpecStarts.                *)
(***************************************************************************)
\* C21: over every sequence of process starts on one dated directory, with
\* MAX_FILES at least 1 and every deletion succeeding, the directory never
\* holds more than MAX_FILES log files once a log file has been opened.
C21_NeverOverMaxFiles ==
    (locked = {} /\ maxFiles >= 1) => Cardinality(files) <= maxFiles

(***************************************************************************)
(* Emitting records: the claim C22, checked under SpecCreate.              *)
(***************************************************************************)
\* the writes of fhLog
Writes == {i \in 1..Len(fhLog) : fhLog[i].op = "write"}

\* C22: a record emitted after the creation of the file handler leaves the
\* set of log files as it was, and goes to the file that was opened when
\* the handler was created, however many records and however much time
\* went before.
C22_EmitNeverRotates ==
    [][WriteRecordAny =>
         /\ files' = files
         /\ \E j \in 1..Len(fhLog) :
              /\ fhLog[j].op = "open"
              /\ fhLog[j].by = "create_file_handler"
              /\ fhLog[j].file = fhLog'[Len(fhLog')].file]_vars

\* two records were written to the file of the handler, the second of them
\* a second after the handler had opened it
C22_Witness ==
    /\ Cardinality(Writes) = 2
    /\ \A i \in Writes : fhLog[i].file = 1
    /\ now = 2
    /\ mtime[1] = 2
    /\ files = {1}

(***************************************************************************)
(* The dated directory.  A directory is named by its day; BACKUP_LOG_DIR   *)
(* is an attribute of the FileManagerService that JsonCustomFileHandler    *)
(* holds as a class attribute.  dirLog lists the construction, the         *)
(* cleanups and the new log files with the directory each used and the     *)
(* day on which it happened.                                               *)
(***************************************************************************)
DirEvent(op, dir) == [op |-> op, dir |-> dir, on |-> today]

\* FileManagerService(): __post_init__ calls _setup_log_dirs, which names
\* the directory by SYS_INFO.timestamp, the time of the construction
ConstructFileManager ==
    /\ backupDir = 0
    /\ backupDir' = today
    /\ dirLog' = Append(dirLog, DirEvent("construct", today))
    /\ UNCHANGED today
    /\ UNCHANGED notDateVars

\* the local date changes
NextDay ==
    /\ today < MaxDay
    /\ today' = today + 1
    /\ UNCHANGED <<backupDir, dirLog>>
    /\ UNCHANGED notDateVars

\* the directory that cleanup_old_files lists: self.BACKUP_LOG_DIR
CleanupDir(dir, day) == dir

\* a variant of LogPathDir: the directory of the day of the call
LogPathDirToday(dir, day) == day

\* the directory of _create_log_path_name:
\* self._file_manager.BACKUP_LOG_DIR / filename
LogPathDir(dir, day) == dir

\* cleanup_old_files(), as far as the directory goes
CleanupOnDir ==
    /\ backupDir # 0
    /\ Len(dirLog) < MaxDirLog
    /\ dirLog' = Append(dirLog, DirEvent("cleanup", CleanupDir(backupDir, today)))
    /\ UNCHANGED <<today, backupDir>>
    /\ UNCHANGED notDateVars

\* JsonCustomFileHandler(): the log file is opened at _create_log_path_name()
OpenOnDir ==
    /\ backupDir # 0
    /\ Len(dirLog) < MaxDirLog
    /\ dirLog' = Append(dirLog, DirEvent("open", LogPathDir(backupDir, today)))
    /\ UNCHANGED <<today, backupDir>>
    /\ UNCHANGED notDateVars

\* the module file_handler is imported on any day
DatesInit ==
    /\ NotJsonInit
    /\ JsonIdle

DatesNext ==
    \/ ConstructFileManager
    \/ NextDay
    \/ CleanupOnDir
    \/ OpenOnDir

SpecDates == DatesInit /\ [][DatesNext]_vars

(***************************************************************************)
(* The dated directory: the claim C23, checked under SpecDates.            *)
(***************************************************************************)
\* C23: BACKUP_LOG_DIR names the day of the construction and never
\* changes: every cleanup and every new log file, also those after the
\* date has changed, use the directory of the day of the construction.
C23_DirectoryFixedAtConstruction ==
    dirLog # <<>> =>
        /\ dirLog[1].op = "construct"
        /\ dirLog[1].dir = dirLog[1].on
        /\ backupDir = dirLog[1].on
        /\ \A i \in 1..Len(dirLog) : dirLog[i].dir = dirLog[1].on

\* a cleanup and a new log file, both on a day after the construction
C23_Witness ==
    /\ Len(dirLog) >= 3
    /\ \E i, j \in 2..Len(dirLog) :
         /\ dirLog[i].op = "cleanup"
         /\ dirLog[j].op = "open"
         /\ dirLog[i].on > dirLog[1].on
         /\ dirLog[j].on > dirLog[1].on

(***************************************************************************)
(* TracebackRichFormatter.create_rich_traceback.  A frame of a traceback   *)
(* is a record: the exception it belongs to, its place k from the oldest   *)
(* caller, its line number, and whether its source line is known           *)
(* (frame.line).  A line of the output is a record as well: a blank line,  *)
(* the "file" header of a frame, the "in <function>" line of a frame, a    *)
(* numbered "source" line, or one of the two lines of the exception.       *)
(* The formatter keeps its lines and its frames in attributes of the       *)
(* instance: a step of a call reads and writes the attributes as they are  *)
(* at that moment.                                                         *)
(***************************************************************************)
Frame(e, k, lineno, known) == [exc |-> e, k |-> k, lineno |-> lineno, known |-> known]

\* self._tb_list[-SETTINGS.TRACEBACKS_MAX_FRAMES :] if self._tb_list else []
RichLastFrames(tbList, maxFrames) ==
    IF tbList # <<>> THEN SliceFrom(tbList, 0 - maxFrames) ELSE <<>>

\* _info_file(frame)
InfoFile(f) == [kind |-> "file", exc |-> f.exc, k |-> f.k, no |-> f.lineno, mark |-> FALSE]

\* _format_frame_func(frame)
FormatFrameFunc(f) == [kind |-> "in", exc |-> f.exc, k |-> f.k, no |-> 0, mark |-> FALSE]

\* _format_frame_lines(frame, lineno): the lines start..end of the file
FormatFrameLines(f, context) ==
    LET start == IF f.lineno - context < 1 THEN 1 ELSE f.lineno - context
        end == f.lineno + context
    IN  [i \in 1..(end - start + 1) |->
            [kind |-> "source", exc |-> f.exc, k |-> f.k, no |-> start + i - 1,
             mark |-> (start + i - 1 = f.lineno)]]

\* _info_lines(frame, frame_num): nothing when the source line of the
\* frame is not known
InfoLines(f, isLast, context) ==
    IF ~(f.known /\ f.lineno # 0) THEN <<>>
    ELSE IF isLast THEN FormatFrameLines(f, context)
    ELSE <<FormatFrameFunc(f)>>

\* the lines that _formata_frames appends for the frames given
RECURSIVE FormataFramesFrom(_, _, _)
FormataFramesFrom(frames, i, context) ==
    IF i > Len(frames) THEN <<>>
    ELSE <<InfoFile(frames[i])>>
           \o InfoLines(frames[i], i = Len(frames), context)
           \o FormataFramesFrom(frames, i + 1, context)

\* the two lines of _format_exc_msg(exc_type, exc_value)
FormatExcMsg(e) ==
    <<[kind |-> "type", exc |-> e, k |-> 0, no |-> 0, mark |-> FALSE],
      [kind |-> "message", exc |-> e, k |-> 0, no |-> 0, mark |-> FALSE]>>

\* the line of _cabecalho
Cabecalho == [kind |-> "blank", exc |-> 0, k |-> 0, no |-> 0, mark |-> FALSE]

\* the settings of the two-thread runs
ThreadsMaxFrames == MaxFrames
ThreadsContext == 1

\* _configs(exc_traceback)
RichConfigs(t) ==
    /\ thPc[t] = "configs"
    /\ fmtLines' = <<>>
    /\ fmtFrames' = RichLastFrames(thArg[t].frames, ThreadsMaxFrames)
    /\ thPc' = [thPc EXCEPT ![t] = "cabecalho"]
    /\ UNCHANGED <<thArg, thRet>>
    /\ UNCHANGED notThreadVars

\* _cabecalho()
RichCabecalho(t) ==
    /\ thPc[t] = "cabecalho"
    /\ fmtLines' = Append(fmtLines, Cabecalho)
    /\ thPc' = [thPc EXCEPT ![t] = "frames"]
    /\ UNCHANGED <<thArg, thRet, fmtFrames>>
    /\ UNCHANGED notThreadVars

\* _formata_frames()
RichFormataFrames(t) ==
    /\ thPc[t] = "frames"
    /\ fmtLines' = fmtLines \o FormataFramesFrom(fmtFrames, 1, ThreadsContext)
    /\ thPc' = [thPc EXCEPT ![t] = "excmsg"]
    /\ UNCHANGED <<thArg, thRet, fmtFrames>>
    /\ UNCHANGED notThreadVars

\* _format_exc_msg(exc_type, exc_value)
RichFormatExcMsg(t) ==
    /\ thPc[t] = "excmsg"
    /\ fmtLines' = fmtLines \o FormatExcMsg(thArg[t].exc)
    /\ thPc' = [thPc EXCEPT ![t] = "join"]
    /\ UNCHANGED <<thArg, thRet, fmtFrames>>
    /\ UNCHANGED notThreadVars

\* return "\n".join(self._traceback_lines)
RichReturn(t) ==
    /\ thPc[t] = "join"
    /\ thRet' = [thRet EXCEPT ![t] = fmtLines]
    /\ thPc' = [thPc EXCEPT ![t] = "done"]
    /\ UNCHANGED <<thArg, fmtLines, fmtFrames>>
    /\ UNCHANGED notThreadVars

RichStep ==
    \E t \in Threads :
        \/ RichConfigs(t)
        \/ RichCabecalho(t)
        \/ RichFormataFrames(t)
        \/ RichFormatExcMsg(t)
        \/ RichReturn(t)

\* the traceback of exception e with n frames, each with its source line
TracebackOf(e, n) == [k \in 1..n |-> Frame(e, k, 1, TRUE)]

\* nothing has happened in the earlier sections of the module
NotMoreInit ==
    /\ dirExists = TRUE
    /\ files = {}
    /\ mtime = [f \in FileIds |-> 0]
    /\ locked = {}
    /\ maxFiles = MaxLimit
    /\ pc = "idle"
    /\ CallIdle
    /\ SetupIdle
    /\ SingletonIdle
    /\ JsonIdle
    /\ LogIdle
    /\ HooksIdle
    /\ TextIdle
    /\ CreateIdle

\* nothing has happened but what the threads do
NotThreadsInit ==
    /\ NotMoreInit
    /\ DateIdle
    /\ FieldsIdle

\* thread t is about to call create_rich_traceback on the one formatter
\* with its own exception t, whose traceback has one or two frames
RichThreadsInit ==
    /\ NotThreadsInit
    /\ thPc = [t \in Threads |-> "configs"]
    /\ thArg \in [Threads -> [exc : Threads, frames : {TracebackOf(e, n) : e \in Threads, n \in 1..2}]]
    /\ \A t \in Threads : thArg[t].exc = t /\ thArg[t].frames[1].exc = t
    /\ thRet = [t \in Threads |-> <<>>]
    /\ fmtLines = <<>>
    /\ fmtFrames = <<>>

SpecRichThreads == RichThreadsInit /\ [][RichStep]_vars

(***************************************************************************)
(* Concurrent formatting: the claim C24, checked under SpecRichThreads.    *)
(***************************************************************************)
\* what create_rich_traceback returns for the argument a when it runs alone
RichAlone(a) ==
    <<Cabecalho>>
      \o FormataFramesFrom(RichLastFrames(a.frames, ThreadsMaxFrames), 1, ThreadsContext)
      \o FormatExcMsg(a.exc)

\* C24: when two threads call create_rich_traceback on one formatter for
\* different exceptions, each call returns, under every interleaving, what
\* it returns when it runs alone.
C24_ConcurrentCallsAsAlone ==
    \A t \in Threads :
        thPc[t] = "done" => thRet[t] = RichAlone(thArg[t])

(***************************************************************************)
(* One call of create_rich_traceback, alone: thread 1 formats an exception *)
(* whose traceback has up to MaxStack frames, each at line 1 or 2 of its   *)
(* file and each with or without a known source line (code compiled from   *)
(* a string and frozen modules have none); thread 2 does nothing.          *)
(***************************************************************************)
MaxRichStack == 4

RichTracebacks ==
    UNION {[1..n -> [exc : {1}, k : 1..MaxRichStack, lineno : 1..2, known : BOOLEAN]] :
             n \in 0..MaxRichStack}

RichAloneInit ==
    /\ NotThreadsInit
    /\ thPc = [t \in Threads |-> IF t = 1 THEN "configs" ELSE "idle"]
    /\ \E tb \in RichTracebacks :
         /\ \A i \in 1..Len(tb) : tb[i].k = i
         /\ thArg = [t \in Threads |-> IF t = 1 THEN [exc |-> 1, frames |-> tb] ELSE 0]
    /\ thRet = [t \in Threads |-> <<>>]
    /\ fmtLines = <<>>
    /\ fmtFrames = <<>>

SpecRichAlone == RichAloneInit /\ [][RichStep]_vars

(***************************************************************************)
(* The layout of the rich traceback: the claim C29, checked under          *)
(* SpecRichAlone.                                                          *)
(***************************************************************************)
\* the numbered source lines from max(1, failing - context) to
\* failing + context, ascending, the failing one highlighted
StatedSource(f, context) ==
    LET start == IF f.lineno - context < 1 THEN 1 ELSE f.lineno - context
    IN  [i \in 1..(f.lineno + context - start + 1) |->
            [kind |-> "source", exc |-> f.exc, k |-> f.k, no |-> start + i - 1,
             mark |-> (start + i - 1 = f.lineno)]]

\* a header for each frame; one "in" line after each but the last, the
\* source lines after the last
RECURSIVE StatedFrames(_, _, _)
StatedFrames(frames, i, context) ==
    IF i > Len(frames) THEN <<>>
    ELSE <<[kind |-> "file", exc |-> frames[i].exc, k |-> frames[i].k,
            no |-> frames[i].lineno, mark |-> FALSE]>>
           \o (IF i = Len(frames) THEN StatedSource(frames[i], context)
               ELSE <<[kind |-> "in", exc |-> frames[i].exc, k |-> frames[i].k,
                       no |-> 0, mark |-> FALSE]>>)
           \o StatedFrames(frames, i + 1, context)

\* the last Min(n, k) of the n frames
LastOf(frames, k) ==
    SubSeq(frames, Len(frames) - Min(Len(frames), k) + 1, Len(frames))

\* C29: create_rich_traceback keeps the last TRACEBACKS_MAX_FRAMES frames
\* and emits, oldest first, a header for each; every kept frame but the last
\* is followed by exactly one "in <function>" line, the last by the numbered
\* source lines max(1, failing - context) .. failing + context in ascending
\* order with exactly the failing line highlighted; the output ends with
\* the two lines of the exception type and message.
C29_LayoutOfKeptFrames ==
    (thPc[1] = "done" /\ thPc[2] = "idle") =>
        thRet[1] = <<Cabecalho>>
                     \o StatedFrames(LastOf(thArg[1].frames, ThreadsMaxFrames), 1,
                                     ThreadsContext)
                     \o FormatExcMsg(thArg[1].exc)

(***************************************************************************)
(* getinstance called from two threads.  A thread may be suspended between *)
(* any two of: the test `cls not in instances`, the call of the            *)
(* constructor, the store into `instances`, and the read of                *)
(* `instances[cls]` it returns; the function takes no lock.  thRet[t]      *)
(* holds the object thread t has constructed and not yet stored.           *)
(***************************************************************************)
notGetVars == <<retentionVars, setupVars, jsonVars, recordVars, emitVars,
                hookVars, textVars, createVars, dateVars, lastWrite,
                fmtLines, fmtFrames, fieldVars>>

\* if cls not in instances:
GetCheck(t) ==
    /\ thPc[t] = "check"
    /\ thPc' = [thPc EXCEPT ![t] = IF InCache(instances, Cls) THEN "return" ELSE "construct"]
    /\ UNCHANGED <<thArg, thRet, instances, objs, calls>>
    /\ UNCHANGED notGetVars

\* cls(*args, **kwargs)
GetConstruct(t) ==
    /\ thPc[t] = "construct"
    /\ objs' = Append(objs, [value |-> thArg[t], count |-> 0])
    /\ thRet' = [thRet EXCEPT ![t] = <<Len(objs) + 1>>]
    /\ thPc' = [thPc EXCEPT ![t] = "store"]
    /\ UNCHANGED <<thArg, instances, calls>>
    /\ UNCHANGED notGetVars

\* instances[cls] = ...
GetStore(t) ==
    /\ thPc[t] = "store"
    /\ instances' = [c \in {Cls} |-> thRet[t][1]]
    /\ thRet' = [thRet EXCEPT ![t] = <<>>]
    /\ thPc' = [thPc EXCEPT ![t] = "return"]
    /\ UNCHANGED <<thArg, objs, calls>>
    /\ UNCHANGED notGetVars

\* return instances[cls]
GetReturn(t) ==
    /\ thPc[t] = "return"
    /\ calls' = Append(calls, [arg |-> thArg[t], ref |-> instances[Cls]])
    /\ thPc' = [thPc EXCEPT ![t] = "done"]
    /\ UNCHANGED <<thArg, thRet, instances, objs>>
    /\ UNCHANGED notGetVars

GetStep ==
    \E t \in Threads :
        \/ GetCheck(t)
        \/ GetConstruct(t)
        \/ GetStore(t)
        \/ GetReturn(t)

\* each thread is about to make a first call of the decorated class
GetThreadsInit ==
    /\ NotThreadsInit
    /\ thPc = [t \in Threads |-> "check"]
    /\ thArg \in [Threads -> 1..MaxArg]
    /\ thRet = [t \in Threads |-> <<>>]
    /\ fmtLines = <<>>
    /\ fmtFrames = <<>>

SpecGetThreads == GetThreadsInit /\ [][GetStep]_vars

(***************************************************************************)
(* Singleton under threads: the claim C25, checked under SpecGetThreads.   *)
(***************************************************************************)
\* C25: when the first calls of several threads interleave, the constructor
\* of the decorated class runs at most once and all callers receive the
\* same instance.
C25_OneInstanceUnderThreads ==
    /\ Len(objs) <= 1
    /\ \A i, j \in 1..Len(calls) : calls[i].ref = calls[j].ref

(***************************************************************************)
(* A setup that raises: the claim C30, checked under SpecSetup.            *)
(***************************************************************************)
\* the step is a call of setup_logging
IsSetupCall == setupCalls' = setupCalls + 1

\* C30: if creating either handler raises, setup_logging has attached no
\* handler, has left the level of the logger as it was and has installed no
\* hook; and a later call that finds the logger as the failed call left it
\* is not skipped: when its handlers are created it attaches the console
\* and the file handler, sets the level and installs its hooks.
C30_AllOrNothing ==
    [][IsSetupCall =>
         /\ lastSetup'.outcome = "raised" =>
              /\ handlers = <<>>
              /\ handlers' = <<>>
              /\ loggerLevel' = loggerLevel
              /\ sysHook' = sysHook
              /\ threadHook' = threadHook
         /\ (lastSetup.outcome = "raised" /\ handlers = <<>>) =>
              /\ lastSetup'.outcome # "skipped"
              /\ lastSetup'.outcome = "configured" =>
                   /\ Len(handlers') = 2
                   /\ handlers'[1].kind = "console"
                   /\ handlers'[2].kind = "file"
                   /\ handlers'[2].file \in files'
                   /\ loggerLevel' = lastSetup'.level
                   /\ sysHook' = setupCalls'
                   /\ threadHook' = setupCalls']_vars

\* a first call has raised, a second has raised as well, and the logger is
\* still as the interpreter made it
C30_Witness ==
    /\ setupCalls = 2
    /\ lastSetup.outcome = "raised"
    /\ handlers = <<>>
    /\ loggerLevel = "WARNING"
    /\ sysHook = 0
    /\ threadHook = 0

(***************************************************************************)
(* setup_logging called from two threads.  The method takes no lock: a     *)
(* thread may be suspended between the test hasHandlers(), the creation of *)
(* the handlers, each addHandler, and the setting of level and hooks.      *)
(* thArg[t] is the level thread t passes; thRet[t] lists what the call of  *)
(* thread t has done so far: "cleanup", "open", "hooks".                   *)
(***************************************************************************)
notSetupThreadVars == <<dirExists, locked, maxFiles, callVars, setupCalls,
                        lastSetup, singletonVars, jsonVars, recordVars,
                        emitVars, hookVars, textVars, createVars, dateVars,
                        fmtLines, fmtFrames, fieldVars>>

\* if self.LOGGER.hasHandlers(): return
SetupGuard(t) ==
    /\ thPc[t] = "guard"
    /\ thPc' = [thPc EXCEPT ![t] = IF HasHandlers(handlers) THEN "done" ELSE "create"]
    /\ UNCHANGED <<thArg, thRet, files, mtime, now, handlers, loggerLevel,
                   sysHook, threadHook>>
    /\ UNCHANGED notSetupThreadVars

\* create_rich_handler(...), then create_file_handler(...): cleanup_old_files
\* and the opening of the file named by the clock
SetupCreate(t) ==
    /\ thPc[t] = "create"
    /\ now \in FileIds
    /\ \E order \in Perms(files) :
         LET kept == CleanupResult(files, mtime, locked, maxFiles, order) IN
           /\ files' = kept \cup {now}
           /\ mtime' = [f \in FileIds |->
                          IF f = now THEN now
                          ELSE IF f \in kept THEN mtime[f] ELSE 0]
    /\ thRet' = [thRet EXCEPT ![t] = <<"cleanup", "open">>]
    /\ thPc' = [thPc EXCEPT ![t] = "addConsole"]
    /\ UNCHANGED <<thArg, now, handlers, loggerLevel, sysHook, threadHook>>
    /\ UNCHANGED notSetupThreadVars

\* self.LOGGER.addHandler(console_handler)
SetupAddConsole(t) ==
    /\ thPc[t] = "addConsole"
    /\ handlers' = Append(handlers, ConsoleHandlerOf)
    /\ thPc' = [thPc EXCEPT ![t] = "addFile"]
    /\ UNCHANGED <<thArg, thRet, files, mtime, now, loggerLevel, sysHook,
                   threadHook>>
    /\ UNCHANGED notSetupThreadVars

\* self.LOGGER.addHandler(file_handler): the handler object is the thread's
\* own, whatever the name of its file
SetupAddFile(t) ==
    /\ thPc[t] = "addFile"
    /\ handlers' = Append(handlers, [kind |-> "file", file |-> t])
    /\ thPc' = [thPc EXCEPT ![t] = "finish"]
    /\ UNCHANGED <<thArg, thRet, files, mtime, now, loggerLevel, sysHook,
                   threadHook>>
    /\ UNCHANGED notSetupThreadVars

\* self.LOGGER.setLevel(level) and the installation of the two hooks
SetupFinish(t) ==
    /\ thPc[t] = "finish"
    /\ loggerLevel' = thArg[t]
    /\ sysHook' = t
    /\ threadHook' = t
    /\ thRet' = [thRet EXCEPT ![t] = Append(@, "hooks")]
    /\ thPc' = [thPc EXCEPT ![t] = "done"]
    /\ UNCHANGED <<thArg, files, mtime, now, handlers>>
    /\ UNCHANGED notSetupThreadVars

SetupStep ==
    \E t \in Threads :
        \/ SetupGuard(t)
        \/ SetupCreate(t)
        \/ SetupAddConsole(t)
        \/ SetupAddFile(t)
        \/ SetupFinish(t)

\* the directory holds the log files of earlier runs, the root logger has
\* no handler, and each thread is about to call setup_logging
SetupThreadsInit ==
    /\ dirExists = TRUE
    /\ files \in SUBSET FileIds
    /\ mtime \in [FileIds -> 0..MaxTime]
    /\ \A f \in FileIds : (mtime[f] = 0) <=> (f \notin files)
    /\ locked = {}
    /\ maxFiles \in 1..MaxLimit
    /\ pc = "idle"
    /\ CallIdle
    /\ SetupIdle
    /\ SingletonIdle
    /\ JsonIdle
    /\ LogIdle
    /\ HooksIdle
    /\ TextIdle
    /\ CreateIdle
    /\ DateIdle
    /\ FieldsIdle
    /\ thPc = [t \in Threads |-> "guard"]
    /\ thArg \in [Threads -> {"DEBUG", "INFO"}]
    /\ thRet = [t \in Threads |-> <<>>]
    /\ fmtLines = <<>>
    /\ fmtFrames = <<>>

SetupThreadsNext == SetupStep \/ Tick

SpecSetupThreads == SetupThreadsInit /\ [][SetupThreadsNext]_vars

(***************************************************************************)
(* Concurrent setup: the claim C26, checked under SpecSetupThreads.        *)
(***************************************************************************)
\* the handlers of the given kind attached to the logger
OfKind(kind) == {i \in 1..Len(handlers) : handlers[i].kind = kind}

\* the threads whose call has done op
Did(op) == {t \in Threads : \E i \in 1..Len(thRet[t]) : thRet[t][i] = op}

\* C26: when two threads call setup_logging concurrently on a logger without
\* handlers, then under every interleaving the logger ends with exactly one
\* console handler and one file handler, and retention has run and the
\* exception hooks have been installed exactly once.
C26_OneSetupUnderThreads ==
    (\A t \in Threads : thPc[t] = "done") =>
        /\ Cardinality(OfKind("console")) = 1
        /\ Cardinality(OfKind("file")) = 1
        /\ Cardinality(Did("cleanup")) = 1
        /\ Cardinality(Did("hooks")) = 1

(***************************************************************************)
(* One expansion per identity: the claim C27, checked under SpecJson.      *)
(***************************************************************************)
\* the tags of the nodes that render an object by its parts
ExpandedTags == {"asdict", "dict", "list", "to_dict", "vars"}

RECURSIVE Expansions(_, _)
RECURSIVE ExpansionsIn(_, _)

\* how many nodes of the value n render the object o by its parts
Expansions(n, o) ==
    (IF n.of = o /\ n.tag \in ExpandedTags THEN 1 ELSE 0) + ExpansionsIn(n.kids, o)

\* the same, summed over a sequence of values
ExpansionsIn(ns, o) ==
    IF ns = <<>> THEN 0 ELSE Expansions(Head(ns), o) + ExpansionsIn(Tail(ns), o)

\* C27: within one top-level call of jsonable no object is expanded twice:
\* its first encounter registers its identity before its children are
\* serialized, and every later encounter, through a cycle or through a
\* shared reference, yields its string representation.
C27_NoIdentityExpandedTwice ==
    jsPc = "returned" =>
        \A o \in Ids : ~IsPrim(o) => Expansions(jsOut, o) <= 1

(***************************************************************************)
(* SafeJsonFormatter.add_fields.  A text is the sequence of its code       *)
(* points.  The LogRecord carries the text of msg, at most one argument,   *)
(* which is a str, and at most one exception, of which the formatter of    *)
(* tracebacks returns the summary, the type name and the message.          *)
(***************************************************************************)
MaxMsgLen == 2

\* the code points of the texts and the characters they are: a, a space,
\* %, s, U+1F60A (a smiling face) and U+D83D (a surrogate, which no UTF-8
\* sequence encodes)
AfTable ==
    {<<97, "a">>, <<32, " ">>, <<37, "%">>, <<115, "s">>,
     <<128522, "U+1F60A">>, <<55357, "U+D83D">>}

AfCodePoints == {p[1] : p \in AfTable}

CharOf(c) == (CHOOSE p \in AfTable : p[1] = c)[2]
CodeOf(ch) == (CHOOSE p \in AfTable : p[2] = ch)[1]

\* the text as the characters remove_placeholders reads, and back
CharsOf(text) == [i \in 1..Len(text) |-> CharOf(text[i])]
CodesOf(chars) == [i \in 1..Len(chars) |-> CodeOf(chars[i])]

IsSurrogate(c) == 55296 <= c /\ c <= 57343

\* the code point of the hexadecimal digit d, in lower case
HexDigit(d) == IF d < 10 THEN 48 + d ELSE 87 + d

\* "\udXXX", the six characters that backslashreplace writes for the
\* surrogate c
Escaped(c) ==
    <<92, 117, HexDigit(c \div 4096), HexDigit((c \div 256) % 16),
      HexDigit((c \div 16) % 16), HexDigit(c % 16)>>

\* txt.encode("utf-8", "backslashreplace").decode("utf-8")
RECURSIVE BackslashReplace(_)
BackslashReplace(text) ==
    IF text = <<>> THEN <<>>
    ELSE (IF IsSurrogate(Head(text)) THEN Escaped(Head(text)) ELSE <<Head(text)>>)
           \o BackslashReplace(Tail(text))

\* a variant of SanitizeStr: the text is only re-encoded
SanitizeStrEncodeOnly(text) == BackslashReplace(text)

\* _sanitize_str(txt_): strip_emojis, then the re-encoding
SanitizeStr(text) ==
    BackslashReplace(StripEmojis([none |-> FALSE, text |-> text]))

\* no such field in log_record: no text holds the code point -1
NoField == <<-1>>

\* the texts of at most n of the code points
AfTexts(n) == UNION {[1..k -> AfCodePoints] : k \in 0..n}

\* a text of one code point
AfShort == {<<c>> : c \in AfCodePoints}

\* jsonable(record.args[0]) of a str: the str itself
JsonableStr(text) == text

\* add_fields(log_record, record, message_dict)
AddFieldsCall ==
    /\ afPc = "ready"
    /\ afOut' =
         [message |-> SanitizeStr(CodesOf(RemovePlaceholders(CharsOf(afIn.msg)))),
          customargs |-> IF afIn.arg # NoField THEN JsonableStr(afIn.arg) ELSE NoField,
          exc_info |-> IF afIn.exc THEN SanitizeStr(afIn.tb) ELSE NoField,
          exc_name |-> IF afIn.exc THEN SanitizeStr(afIn.name) ELSE NoField,
          exc_message |-> IF afIn.exc THEN SanitizeStr(afIn.value) ELSE NoField]
    /\ afPc' = "returned"
    /\ UNCHANGED afIn
    /\ UNCHANGED <<retentionVars, setupVars, singletonVars, jsonVars, recordVars,
                   emitVars, hookVars, textVars, createVars, dateVars, threadVars>>

\* a record with any short msg, with or without an argument, with or
\* without an exception
AddFieldsInit ==
    /\ NotMoreInit
    /\ DateIdle
    /\ ThreadsIdle
    /\ afPc = "ready"
    /\ \E msg \in AfTexts(MaxMsgLen), arg \in AfShort \cup {NoField},
          value \in AfShort, tb \in AfShort, exc \in BOOLEAN :
         /\ ~exc => (value = <<97>> /\ tb = <<97>>)
         /\ afIn = [msg |-> msg, arg |-> arg, exc |-> exc, tb |-> tb,
                    name |-> <<97>>, value |-> value]
    /\ afOut = <<>>

SpecAddFields == AddFieldsInit /\ [][AddFieldsCall]_vars

(***************************************************************************)
(* Sanitized fields: the claim C28, checked under SpecAddFields.           *)
(***************************************************************************)
\* the text has no code point that strip_emojis deletes and none that
\* UTF-8 cannot encode
Sanitized(text) ==
    \A i \in 1..Len(text) :
        /\ ~InRanges(text[i], EMOJI_RE)
        /\ ~IsSurrogate(text[i])

\* C28: every string that add_fields puts into the record is sanitized:
\* message, exc_info, exc_name, exc_message and the strings of customargs
\* hold no code point of the emoji ranges and are valid UTF-8.
C28_EveryFieldSanitized ==
    afPc = "returned" =>
        \A k \in {"message", "customargs", "exc_info", "exc_name", "exc_message"} :
            afOut[k] # NoField => Sanitized(afOut[k])

====
